---- MODULE Spec2Model ----
(***************************************************************************)
(* Fleet allocation and charge scheduling (KKFPS/allocation-v2).           *)
(*                                                                         *)
(* The module holds several specifications over one set of variables:      *)
(*   SpecAlloc  constraint engine, sequence enumerator, allocation solver  *)
(*   SpecSched  charge scheduling by the greedy fallbacks, and validation   *)
(*   SpecRun    one run of a controller against the store, with failures    *)
(*   SpecConc   concurrent HTTP requests sharing the process's connection   *)
(*   SpecWindow the planning window a scheduling run computes before solving *)
(*   SpecRepeat two runs in a row on the same inputs, and the rows they leave *)
(*   SpecSlots  the time slots a run builds for its planning window         *)
(*   SpecLoad   the vehicles and routes a scheduling run loads and solves   *)
(* Times are minutes from the window start, energies are kWh, powers kW.   *)
(***************************************************************************)
EXTENDS Integers, Sequences, FiniteSets, TLC

VARIABLES
    maf,            \* MAF site parameters read by the constraint engine
    routes,         \* CostMatrixBuilder.routes, sorted by plan_start
    vehicles,       \* CostMatrixBuilder.vehicles
    sequences,      \* (vehicle_id, route_sequence, cost) triples handed to the solver
    selected,       \* solution['selected_sequences'], as indices into sequences
    solver_path,    \* which solver path produced selected
    IS_HEXALY_ACTIVE, \* config.IS_HEXALY_ACTIVE, set from the environment
    allocation_result, \* the AllocationResult of the run
    t_route_allocated, \* the site's rows of t_route_allocated
    baseline,       \* outcome of the solve made before a MAF parameter changed
    phase           \* position of the allocation pipeline

allocVars ==
    <<maf, routes, vehicles, sequences, selected, solver_path, IS_HEXALY_ACTIVE,
      allocation_result, t_route_allocated, baseline, phase>>

VARIABLES
    sched_config,       \* SchedulerConfig fields read by scheduling
    vehicle_states,     \* vehicle_id -> VehicleChargeState
    vehicle_routes,     \* vehicle_id -> planned routes, sorted by plan_start
    forecast_data,      \* slot index -> forecast site demand
    price_data,         \* slot index -> electricity price
    sched_pipeline,     \* which controller prepares and validates the schedule
    vehicle_schedules,  \* result.vehicle_schedules
    validation_passed,  \* result.validation_passed
    t_charge_schedule,  \* rows of t_charge_schedule with the run's schedule_id
    sched_phase         \* position of the scheduling pipeline

schedVars ==
    <<sched_config, vehicle_states, vehicle_routes, forecast_data, price_data,
      sched_pipeline, vehicle_schedules, validation_passed, t_charge_schedule,
      sched_phase>>

VARIABLES
    run_kind,           \* which controller runs: allocation, scheduler, unified
    via_workflow,       \* TRUE when IntegratedWorkflowController drives the run
    opt_mode,           \* UnifiedController mode
    persist_to_database, \* UnifiedController flag
    pc,                 \* position of the run
    allocation_id,      \* self.allocation_id is set (monitor record created)
    schedule_id,        \* self.schedule_id: none, given by the caller, created
    total_score,        \* allocation_result.total_score
    result_status,      \* allocation_result.status
    committed,          \* the store as external readers see it
    working,            \* the store as seen through the connection's transaction
    rows_before,        \* rows of the site and schedule before the run
    raised,             \* exception raised by a step of the run
    persist_aborted,    \* persist step that was aborted part-way
    caller_sees         \* what the caller of the run received

runVars ==
    <<run_kind, via_workflow, opt_mode, persist_to_database, pc, allocation_id,
      schedule_id, total_score, result_status, committed, working, rows_before,
      raised, persist_aborted, caller_sees>>

VARIABLES
    db_connection,      \* db._connection of the process-wide DatabaseConnection
    conn_open,          \* connection -> it is open
    conn_pending,       \* connection -> requests with uncommitted writes on it
    req_pc,             \* request -> position of its handler
    req_conn,           \* request -> conn captured by its current get_cursor
    req_ops,            \* request -> database operations it has completed
    interference        \* request -> what another request did to it

connVars ==
    <<db_connection, conn_open, conn_pending, req_pc, req_conn, req_ops, interference>>

VARIABLES
    window_entry,       \* which controller computes the planning window
    window_hours,       \* target window length, hours
    max_forecast_time,  \* forecast horizon, hours from planning_start
    max_price_time,     \* price horizon, hours from planning_start
    actual_hours,       \* length of the computed planning window, hours
    window_phase        \* position of the run around the window computation

windowVars ==
    <<window_entry, window_hours, max_forecast_time, max_price_time, actual_hours,
      window_phase>>

VARIABLES
    repeat_entry,       \* which controller and mode the caller runs
    schedule_id_arg,    \* schedule_id the caller passes to the constructor
    repeat_result,      \* what the solvers return for the inputs
    tables,             \* rows of t_route_allocated and t_charge_schedule
    serials,            \* last ids issued by t_allocation_monitor and t_scheduler
    controller,         \* self.allocation_id and self.schedule_id of the running controller
    runs_completed,     \* how many runs have returned
    after_first_run,    \* the tables as the first run left them
    repeat_pc           \* position of the current run

repeatVars ==
    <<repeat_entry, schedule_id_arg, repeat_result, tables, serials, controller,
      runs_completed, after_first_run, repeat_pc>>

VARIABLES
    slots_start,        \* _build_time_slots argument start, minutes
    slots_end,          \* _build_time_slots argument end, minutes
    slot_cursor,        \* current, the loop variable of _build_time_slots
    built_slots,        \* slots, the list being built
    slots_pc            \* position inside _build_time_slots

slotVars == <<slots_start, slots_end, slot_cursor, built_slots, slots_pc>>

VARIABLES
    load_entry,             \* which controller runs: scheduler or unified
    load_mode,              \* route_source_mode (scheduler) or optimisation mode (unified)
    vsm_estimated_soc,      \* vehicle_id -> t_vsm.estimated_soc
    route_plan_rows,        \* <<route_id, vehicle_id>> of t_route_plan rows naming a vehicle
    route_allocated_rows,   \* <<route_id, vehicle_id_allocated>> of t_route_allocated
    loaded_vehicles,        \* the vehicles handed to the solver
    loaded_vehicle_routes,  \* vehicle_id -> route ids its checkpoints are built from
    solved_allocation,      \* <<route_id, vehicle_id>> the solve of this run selects
    charged_vehicles,       \* vehicles the solve gives charge slots
    load_pc                 \* position of the run

loadVars ==
    <<load_entry, load_mode, vsm_estimated_soc, route_plan_rows, route_allocated_rows,
      loaded_vehicles, loaded_vehicle_routes, solved_allocation, charged_vehicles, load_pc>>

vars ==
    <<allocVars, schedVars, runVars, connVars, windowVars, repeatVars, slotVars, loadVars>>

\* What the actions of one specification leave alone
outsideAlloc ==
    <<schedVars, runVars, connVars, windowVars, repeatVars, slotVars, loadVars>>
outsideSched ==
    <<allocVars, runVars, connVars, windowVars, repeatVars, slotVars, loadVars>>
outsideRun ==
    <<allocVars, schedVars, connVars, windowVars, repeatVars, slotVars, loadVars>>
outsideConc ==
    <<allocVars, schedVars, runVars, windowVars, repeatVars, slotVars, loadVars>>
outsideWindow ==
    <<allocVars, schedVars, runVars, connVars, repeatVars, slotVars, loadVars>>
outsideRepeat ==
    <<allocVars, schedVars, runVars, connVars, windowVars, slotVars, loadVars>>
outsideSlots ==
    <<allocVars, schedVars, runVars, connVars, windowVars, repeatVars, loadVars>>
outsideLoad ==
    <<allocVars, schedVars, runVars, connVars, windowVars, repeatVars, slotVars>>

----------------------------------------------------------------------------
(* Bounds of the model *)

NVehicles == 2
NRoutes == 2

VehicleIds == 1..NVehicles
RouteIds == 1..NRoutes

----------------------------------------------------------------------------
(* Program constants *)

DEFAULT_MAX_ROUTES_PER_VEHICLE == 5
SafetyMarginKwh == 5
MinimumMinutes == 45
StandardMinutes == 75
OptimalMinutes == 90
PenaltyStandard == -2
PenaltyOptimal == -1
DefaultMaxHours == 16
ShiftBufferMinutes == 60

ConstraintNames ==
    <<"energy_feasibility", "turnaround_time_strict", "turnaround_time_preferred",
      "shift_hours_strict", "route_overlap", "charger_preference">>

HardConstraints ==
    {"energy_feasibility", "turnaround_time_strict", "shift_hours_strict", "route_overlap"}

DEFAULT_PENALTIES ==
    [n \in {ConstraintNames[i] : i \in 1..Len(ConstraintNames)} |->
        CASE n = "energy_feasibility" -> -20
          [] n = "turnaround_time_strict" -> -22
          [] n = "turnaround_time_preferred" -> -2
          [] n = "shift_hours_strict" -> -20
          [] n = "route_overlap" -> -20
          [] OTHER -> 3]

DEFAULT_CONSTRAINT_ENABLED ==
    [n \in {ConstraintNames[i] : i \in 1..Len(ConstraintNames)} |-> n # "charger_preference"]

----------------------------------------------------------------------------
(* Inputs: routes, vehicles and MAF parameters the program can be given *)

\* A configured value is held as <<value>>, a key that is not configured as <<>>.
Absent == <<>>

Min(a, b) == IF a < b THEN a ELSE b
Max(a, b) == IF a > b THEN a ELSE b

StartTimes == {0, 60, 120}
Durations == {60, 90}
RouteEnergies == {15}
VehicleEnergies == {10, 40}
BatteryCapacities == {60}
ChargePowers == {20}

\* One MAF parameter set: per constraint the value of constraint_<name>_enabled
\* and constraint_<name>_penalty (Absent when the key is not configured), and
\* constraint_shift_hours_strict_max_hours.
MafDefault ==
    [enabled |-> [n \in DOMAIN DEFAULT_PENALTIES |-> Absent],
     penalty |-> [n \in DOMAIN DEFAULT_PENALTIES |-> Absent],
     max_hours |-> Absent]

MafParamSets ==
    { MafDefault,
      [MafDefault EXCEPT !.max_hours = <<2>>],
      [MafDefault EXCEPT !.enabled["route_overlap"] = <<FALSE>>],
      [MafDefault EXCEPT !.enabled["turnaround_time_strict"] = <<FALSE>>],
      [MafDefault EXCEPT !.enabled["turnaround_time_strict"] = <<FALSE>>,
                         !.enabled["route_overlap"] = <<FALSE>>],
      [MafDefault EXCEPT !.enabled["turnaround_time_preferred"] = <<FALSE>>],
      [MafDefault EXCEPT !.penalty["route_overlap"] = <<20>>],
      [MafDefault EXCEPT !.penalty["energy_feasibility"] = <<20>>] }

RouteChoices ==
    { [start |-> s, end |-> s + d, energy |-> e] :
        s \in StartTimes, d \in Durations, e \in RouteEnergies }

\* The builder sorts its routes by plan_start; route ids are the positions.
RouteInputs ==
    { r \in [RouteIds -> RouteChoices] :
        \A i \in RouteIds : i + 1 \in RouteIds => r[i].start <= r[i + 1].start }

VehicleInputs ==
    [VehicleIds -> [available_energy_kwh : VehicleEnergies, available_time : {0},
                    battery_capacity : BatteryCapacities, charge_power_dc : ChargePowers]]

----------------------------------------------------------------------------
(* Constraint configuration: parameter_parser.get_constraint_config,        *)
(* ConstraintManager._initialize_constraints, BaseConstraint.__init__       *)

get_constraint_config(name) ==
    LET enabled == IF maf.enabled[name] = Absent
                   THEN DEFAULT_CONSTRAINT_ENABLED[name]
                   ELSE maf.enabled[name][1]
    IN  IF ~enabled
        THEN [enabled |-> FALSE, penalty |-> 0]
        ELSE [enabled |-> TRUE,
              penalty |-> IF maf.penalty[name] = Absent
                          THEN DEFAULT_PENALTIES[name]
                          ELSE maf.penalty[name][1]]

\* The constraint object the manager registers for name.  route_overlap is
\* forced enabled; charger_preference re-reads enabled from its params, which
\* never hold the enabled key, so it stays disabled.
initialize_constraint(name) ==
    LET config == get_constraint_config(name)
    IN  CASE name = "route_overlap" -> [config EXCEPT !.enabled = TRUE]
          [] name = "charger_preference" -> [config EXCEPT !.enabled = FALSE]
          [] OTHER -> config

MaxHours == IF maf.max_hours = Absent THEN DefaultMaxHours ELSE maf.max_hours[1]

----------------------------------------------------------------------------
(* The constraints.  A route_sequence is a sequence of route ids.           *)

\* Route.overlaps_with
overlaps_with(a, b, turnaround_minutes) ==
    ~ \/ routes[a].end + turnaround_minutes <= routes[b].start
      \/ routes[b].end + turnaround_minutes <= routes[a].start

\* RouteOverlapConstraint.evaluate (turnaround_minutes is never passed: 0)
RouteOverlapEvaluate(v, seq) ==
    IF Len(seq) < 2 THEN 0
    ELSE IF \E i \in 1..Len(seq) : \E j \in 1..Len(seq) :
                i < j /\ overlaps_with(seq[i], seq[j], 0)
         THEN initialize_constraint("route_overlap").penalty
         ELSE 0

\* TurnaroundTimeStrictConstraint.evaluate
TurnaroundStrictEvaluate(v, seq) ==
    IF ~initialize_constraint("turnaround_time_strict").enabled \/ Len(seq) < 2 THEN 0
    ELSE IF \E i \in 1..(Len(seq) - 1) :
                routes[seq[i + 1]].start - routes[seq[i]].end < MinimumMinutes
         THEN initialize_constraint("turnaround_time_strict").penalty
         ELSE 0

RECURSIVE PreferredSum(_, _)
PreferredSum(seq, i) ==
    IF i >= Len(seq) THEN 0
    ELSE LET gap == routes[seq[i + 1]].start - routes[seq[i]].end
         IN  (IF gap < StandardMinutes THEN PenaltyStandard
              ELSE IF gap < OptimalMinutes THEN PenaltyOptimal ELSE 0)
             + PreferredSum(seq, i + 1)

\* TurnaroundTimePreferredConstraint.evaluate
TurnaroundPreferredEvaluate(v, seq) ==
    IF ~initialize_constraint("turnaround_time_preferred").enabled \/ Len(seq) < 2 THEN 0
    ELSE PreferredSum(seq, 1)

\* ShiftHoursStrictConstraint.evaluate (calculation_method first_to_last)
ShiftHoursEvaluate(v, seq) ==
    IF ~initialize_constraint("shift_hours_strict").enabled \/ Len(seq) = 0 THEN 0
    ELSE IF routes[seq[Len(seq)]].end - routes[seq[1]].start + ShiftBufferMinutes
                > MaxHours * 60
         THEN initialize_constraint("shift_hours_strict").penalty
         ELSE 0

potential_charge(v, minutes) == (minutes * vehicles[v].charge_power_dc) \div 60

RECURSIVE EnergySimulate(_, _, _, _)
EnergySimulate(v, seq, i, current_energy) ==
    IF i > Len(seq) THEN 0
    ELSE LET required == routes[seq[i]].energy IN
         IF current_energy < required + SafetyMarginKwh
         THEN initialize_constraint("energy_feasibility").penalty
         ELSE LET after == current_energy - required
                  between == IF i < Len(seq)
                             THEN routes[seq[i + 1]].start - routes[seq[i]].end
                             ELSE 0
              IN  EnergySimulate(v, seq, i + 1,
                     IF between > 0
                     THEN Min(after + potential_charge(v, between),
                              vehicles[v].battery_capacity)
                     ELSE after)

\* EnergyFeasibilityConstraint.evaluate
EnergyFeasibilityEvaluate(v, seq) ==
    IF ~initialize_constraint("energy_feasibility").enabled \/ Len(seq) = 0 THEN 0
    ELSE LET start_energy == IF vehicles[v].available_energy_kwh = 0
                             THEN vehicles[v].battery_capacity
                             ELSE vehicles[v].available_energy_kwh
             before == Max(0, routes[seq[1]].start - vehicles[v].available_time)
         IN  EnergySimulate(v, seq, 1,
                IF before > 0
                THEN Min(start_energy + potential_charge(v, before),
                         vehicles[v].battery_capacity)
                ELSE start_energy)

\* constraint.evaluate, by registered name
Evaluate(name, v, seq) ==
    CASE name = "energy_feasibility" -> EnergyFeasibilityEvaluate(v, seq)
      [] name = "turnaround_time_strict" -> TurnaroundStrictEvaluate(v, seq)
      [] name = "turnaround_time_preferred" -> TurnaroundPreferredEvaluate(v, seq)
      [] name = "shift_hours_strict" -> ShiftHoursEvaluate(v, seq)
      [] name = "route_overlap" -> RouteOverlapEvaluate(v, seq)
      [] OTHER -> 0

is_hard_constraint(name) == name \in HardConstraints

\* ConstraintManager.evaluate_sequence: the constraints in registration order,
\* disabled ones skipped, returning at the first hard constraint whose cost is
\* negative.
RECURSIVE EvaluateFrom(_, _, _, _)
EvaluateFrom(i, v, seq, total_cost) ==
    IF i > Len(ConstraintNames)
    THEN [total_cost |-> total_cost, is_feasible |-> TRUE]
    ELSE LET name == ConstraintNames[i] IN
         IF ~initialize_constraint(name).enabled
         THEN EvaluateFrom(i + 1, v, seq, total_cost)
         ELSE LET cost == Evaluate(name, v, seq) IN
              IF is_hard_constraint(name) /\ cost < 0
              THEN [total_cost |-> total_cost + cost, is_feasible |-> FALSE]
              ELSE EvaluateFrom(i + 1, v, seq, total_cost + cost)

evaluate_sequence(v, seq) == EvaluateFrom(1, v, seq, 0)

----------------------------------------------------------------------------
(* Sequence enumerator: CostMatrixBuilder                                   *)

\* itertools.combinations(self.routes, k): the increasing k-tuples of route
\* positions; routes are sorted by plan_start, so each is already in the order
\* sorted(route_combo, key=plan_start) gives.
Combinations(k) ==
    { c \in [1..k -> RouteIds] : \A i \in 1..(k - 1) : c[i] < c[i + 1] }

\* Lexicographic order of two increasing tuples of the same length.
RECURSIVE LexLess(_, _, _)
LexLess(a, b, i) ==
    IF i > Len(a) THEN FALSE
    ELSE IF a[i] # b[i] THEN a[i] < b[i]
    ELSE LexLess(a, b, i + 1)

RECURSIVE InLexOrder(_)
InLexOrder(S) ==
    IF S = {} THEN <<>>
    ELSE LET first == CHOOSE a \in S : \A b \in S \ {a} : LexLess(a, b, 1)
         IN  <<first>> \o InLexOrder(S \ {first})

\* The candidate sequences in the order generate_feasible_sequences tries them:
\* singletons, then lengths 2 .. min(max_routes_per_vehicle, n_routes).
RECURSIVE CandidatesFrom(_)
CandidatesFrom(k) ==
    IF k > Min(DEFAULT_MAX_ROUTES_PER_VEHICLE, NRoutes) THEN <<>>
    ELSE InLexOrder(Combinations(k)) \o CandidatesFrom(k + 1)

RECURSIVE KeepFeasible(_, _, _)
KeepFeasible(v, cands, i) ==
    IF i > Len(cands) THEN <<>>
    ELSE LET evaluation == evaluate_sequence(v, cands[i])
         IN  (IF evaluation.is_feasible
              THEN << [vehicle_id |-> v, route_sequence |-> cands[i],
                       cost |-> evaluation.total_cost] >>
              ELSE <<>>)
             \o KeepFeasible(v, cands, i + 1)

generate_feasible_sequences(v) == KeepFeasible(v, CandidatesFrom(1), 1)

RECURSIVE AllSequencesFrom(_)
AllSequencesFrom(v) ==
    IF v > NVehicles THEN <<>>
    ELSE generate_feasible_sequences(v) \o AllSequencesFrom(v + 1)

\* build_assignment_matrix: every vehicle's feasible sequences; nothing when no
\* sequence has a cost >= 0.
build_assignment_matrix ==
    LET all_sequences == AllSequencesFrom(1)
    IN  IF \A i \in 1..Len(all_sequences) : all_sequences[i].cost < 0
        THEN <<>>
        ELSE all_sequences

----------------------------------------------------------------------------
(* Allocation solver: HexalySolver and the allocation part of               *)
(* UnifiedOptimizer.  A solution is the list of selected sequence indices.  *)

Range(f) == { f[i] : i \in DOMAIN f }

\* np.argsort(sequence_costs)[::-1]: indices by cost, best first; equal costs
\* come out in reversed index order.
RECURSIVE SortedIndicesOf(_, _)
SortedIndicesOf(seqs, left) ==
    IF left = {} THEN <<>>
    ELSE LET best == CHOOSE i \in left : \A j \in left \ {i} :
                        \/ seqs[i].cost > seqs[j].cost
                        \/ seqs[i].cost = seqs[j].cost /\ i > j
         IN  <<best>> \o SortedIndicesOf(seqs, left \ {best})

sorted_indices(seqs) == SortedIndicesOf(seqs, DOMAIN seqs)

\* The check dropped: a vehicle is never taken as used.
VehicleUsedIgnored(vehicle_id, used_vehicles) == FALSE

\* "if vehicle_id in used_vehicles: continue"
VehicleUsed(vehicle_id, used_vehicles) == vehicle_id \in used_vehicles

\* The test dropped: no route is ever taken as covered.
RoutesCoveredIgnored(route_ids_in_seq, covered_routes) == FALSE

\* "if any(rid in covered_routes for rid in route_ids_in_seq): continue"
RoutesCovered(route_ids_in_seq, covered_routes) ==
    route_ids_in_seq \cap covered_routes # {}

\* The loop of HexalySolver._greedy_fallback from position k of the order.
RECURSIVE GreedyLoop(_, _, _, _, _, _)
GreedyLoop(seqs, order, k, chosen, covered_routes, used_vehicles) ==
    IF k > Len(order) THEN chosen
    ELSE LET idx == order[k]
             route_ids_in_seq == Range(seqs[idx].route_sequence)
         IN  IF VehicleUsed(seqs[idx].vehicle_id, used_vehicles)
             THEN GreedyLoop(seqs, order, k + 1, chosen, covered_routes, used_vehicles)
             ELSE IF RoutesCovered(route_ids_in_seq, covered_routes)
             THEN GreedyLoop(seqs, order, k + 1, chosen, covered_routes, used_vehicles)
             ELSE IF Cardinality(covered_routes \cup route_ids_in_seq) = NRoutes
             THEN Append(chosen, idx)
             ELSE GreedyLoop(seqs, order, k + 1, Append(chosen, idx),
                             covered_routes \cup route_ids_in_seq,
                             used_vehicles \cup {seqs[idx].vehicle_id})

greedy_fallback(seqs) == GreedyLoop(seqs, sorted_indices(seqs), 1, <<>>, {}, {})

\* The allocation loop of UnifiedOptimizer._greedy_fallback.
RECURSIVE UnifiedGreedyLoop(_, _, _, _, _, _)
UnifiedGreedyLoop(seqs, order, k, chosen, covered_routes, used_vehicles) ==
    IF k > Len(order) THEN chosen
    ELSE LET idx == order[k]
             route_ids_in_seq == Range(seqs[idx].route_sequence)
         IN  IF seqs[idx].vehicle_id \in used_vehicles
             THEN UnifiedGreedyLoop(seqs, order, k + 1, chosen, covered_routes,
                                    used_vehicles)
             ELSE IF route_ids_in_seq \cap covered_routes # {}
             THEN UnifiedGreedyLoop(seqs, order, k + 1, chosen, covered_routes,
                                    used_vehicles)
             ELSE IF Cardinality(covered_routes \cup route_ids_in_seq) = NRoutes
             THEN Append(chosen, idx)
             ELSE UnifiedGreedyLoop(seqs, order, k + 1, Append(chosen, idx),
                                    covered_routes \cup route_ids_in_seq,
                                    used_vehicles \cup {seqs[idx].vehicle_id})

unified_greedy_allocation(seqs) ==
    IF Len(seqs) = 0 THEN <<>>
    ELSE UnifiedGreedyLoop(seqs, sorted_indices(seqs), 1, <<>>, {}, {})

\* The engine model's constraints on the decision variables sequence_vars
\* (S is the set of indices whose variable is 1): per vehicle the sum is at
\* most 1, per route id the coverage sum is at most 1.
EngineConstraints(seqs, S) ==
    /\ \A v \in VehicleIds :
          Cardinality({i \in S : seqs[i].vehicle_id = v}) <= 1
    /\ \A r \in RouteIds :
          Cardinality({i \in S : r \in Range(seqs[i].route_sequence)}) <= 1

\* Every assignment of sequence_vars the engine can return (optimal, or only
\* feasible when the time limit ends the search): the sets satisfying
\* EngineConstraints.  The constraints are sums bounded above, so a set
\* satisfies them only if each of its subsets does, and the sets are built
\* index by index.
RECURSIVE EngineSolutionsFrom(_, _, _)
EngineSolutionsFrom(seqs, i, S) ==
    IF i > Len(seqs) THEN {S}
    ELSE EngineSolutionsFrom(seqs, i + 1, S)
         \cup (IF EngineConstraints(seqs, S \cup {i})
               THEN EngineSolutionsFrom(seqs, i + 1, S \cup {i})
               ELSE {})

EngineSolutions(seqs) == EngineSolutionsFrom(seqs, 1, {})

\* "selected_indices = [i for i in range(n_sequences) if sequence_vars[i].value == 1]"
RECURSIVE Ascending(_)
Ascending(S) ==
    IF S = {} THEN <<>>
    ELSE LET least == CHOOSE i \in S : \A j \in S : i <= j
         IN  <<least>> \o Ascending(S \ {least})

----------------------------------------------------------------------------
(* The allocation result and its persistence                                *)

MinScore == -4

\* A run that has not built its AllocationResult yet
NoResult == [total_score |-> 0, status |-> "N", allocations |-> {}]

\* Rows of an earlier run of the site, as (route_id, vehicle_id)
PriorSiteRows == {<<0, 0>>}

RECURSIVE SumOfCosts(_, _, _)
SumOfCosts(seqs, sel, k) ==
    IF k > Len(sel) THEN 0 ELSE seqs[sel[k]].cost + SumOfCosts(seqs, sel, k + 1)

\* solution['total_score']: the costs of the selected sequences
solution_total_score(seqs, sel) == SumOfCosts(seqs, sel, 1)

\* HexalySolver.create_allocation_result: the result starts from the
\* solution's total_score and add_allocation adds each allocation's cost
\* (cost / len(route_sequence) per route of a sequence) to it again.
create_allocation_result(seqs, sel) ==
    [total_score |-> solution_total_score(seqs, sel) + SumOfCosts(seqs, sel, 1),
     status |-> "P",
     allocations |->
        UNION { { <<r, seqs[sel[k]].vehicle_id>> :
                    r \in Range(seqs[sel[k]].route_sequence) } : k \in DOMAIN sel }]

\* routes_allocated: the routes the selected sequences cover
routes_allocated(seqs, sel) ==
    Cardinality(UNION { Range(seqs[sel[k]].route_sequence) : k \in DOMAIN sel })

\* AllocationResult.is_acceptable
result_is_acceptable(result) == result.total_score >= MinScore

----------------------------------------------------------------------------
(* The engine's objective                                                   *)

ROUTE_COUNT_WEIGHT == 100

\* The engine's objective for an assignment S: ROUTE_COUNT_WEIGHT times the
\* number of covered routes, plus the costs of the selected sequences.
EngineObjective(seqs, S) ==
    LET order == Ascending(S)
    IN  ROUTE_COUNT_WEIGHT
            * Cardinality(UNION { Range(seqs[i].route_sequence) : i \in S })
        + SumOfCosts(seqs, order, 1)

\* The assignments the engine reports with status 'optimal'
EngineOptimalSolutions(seqs) ==
    LET solutions == EngineSolutions(seqs)
        objectives == { EngineObjective(seqs, T) : T \in solutions }
        best == CHOOSE b \in objectives : \A c \in objectives : b >= c
    IN  { S \in solutions : EngineObjective(seqs, S) = best }

----------------------------------------------------------------------------
(* Specification SpecAlloc: one allocation solve on some input              *)

\* The scheduling pipeline before any scheduling input is loaded
SchedIdle ==
    /\ sched_config = <<>>
    /\ vehicle_states = <<>>
    /\ vehicle_routes = <<>>
    /\ forecast_data = <<>>
    /\ price_data = <<>>
    /\ sched_pipeline = "none"
    /\ vehicle_schedules = <<>>
    /\ validation_passed = TRUE
    /\ t_charge_schedule = <<>>
    /\ sched_phase = "idle"

\* The store holds nothing of the site and no run is in progress
EmptyStore ==
    [allocation_monitor |-> "absent", scheduler |-> "absent",
     route_allocated |-> {}, route_allocated_history |-> {}, charge_schedule |-> {}]

RunIdle ==
    /\ run_kind = "none"
    /\ via_workflow = FALSE
    /\ opt_mode = "none"
    /\ persist_to_database = FALSE
    /\ pc = "idle"
    /\ allocation_id = FALSE
    /\ schedule_id = "none"
    /\ total_score = 0
    /\ result_status = "none"
    /\ committed = EmptyStore
    /\ working = EmptyStore
    /\ rows_before = [route_allocated |-> {}, charge_schedule |-> {}]
    /\ raised = "none"
    /\ persist_aborted = "none"
    /\ caller_sees = "nothing"

\* No HTTP request is being served
ConnIdle ==
    /\ db_connection = 0
    /\ conn_open = <<>>
    /\ conn_pending = <<>>
    /\ req_pc = <<>>
    /\ req_conn = <<>>
    /\ req_ops = <<>>
    /\ interference = <<>>

\* No planning window is being computed
WindowIdle ==
    /\ window_entry = "none"
    /\ window_hours = 0
    /\ max_forecast_time = <<>>
    /\ max_price_time = <<>>
    /\ actual_hours = 0
    /\ window_phase = "idle"

\* No scheduling run is loading its inputs
LoadIdle ==
    /\ load_entry = "none"
    /\ load_mode = "none"
    /\ vsm_estimated_soc = <<>>
    /\ route_plan_rows = {}
    /\ route_allocated_rows = {}
    /\ loaded_vehicles = {}
    /\ loaded_vehicle_routes = <<>>
    /\ solved_allocation = {}
    /\ charged_vehicles = {}
    /\ load_pc = "idle"

\* No time slots are being built
SlotsIdle ==
    /\ slots_start = 0
    /\ slots_end = 0
    /\ slot_cursor = 0
    /\ built_slots = <<>>
    /\ slots_pc = "idle"

\* No run is being repeated
RepeatIdle ==
    /\ repeat_entry = "none"
    /\ schedule_id_arg = <<>>
    /\ repeat_result = <<>>
    /\ tables = <<>>
    /\ serials = <<>>
    /\ controller = <<>>
    /\ runs_completed = 0
    /\ after_first_run = <<>>
    /\ repeat_pc = "idle"

InitAlloc ==
    /\ WindowIdle
    /\ RepeatIdle
    /\ SlotsIdle
    /\ LoadIdle
    /\ SchedIdle
    /\ RunIdle
    /\ ConnIdle
    /\ maf \in MafParamSets
    /\ routes \in RouteInputs
    /\ vehicles \in VehicleInputs
    /\ IS_HEXALY_ACTIVE \in BOOLEAN
    /\ sequences = <<>>
    /\ selected = <<>>
    /\ solver_path = "none"
    /\ allocation_result = NoResult
    /\ t_route_allocated = PriorSiteRows
    /\ baseline = <<>>
    /\ phase = "loaded"

\* CostMatrixBuilder.build_assignment_matrix
BuildAssignmentMatrix ==
    /\ phase = "loaded"
    /\ sequences' = build_assignment_matrix
    /\ phase' = "matrix"
    /\ UNCHANGED <<maf, routes, vehicles, selected, solver_path, IS_HEXALY_ACTIVE,
                   allocation_result, t_route_allocated, baseline>>
    /\ UNCHANGED outsideAlloc

\* HexalySolver.solve: engine when active, greedy when inactive or when the
\* engine raises.
HexalySolve ==
    /\ phase = "matrix"
    /\ \/ /\ IS_HEXALY_ACTIVE
          /\ \E S \in EngineSolutions(sequences) : selected' = Ascending(S)
          /\ solver_path' = "hexaly_engine"
       \/ /\ selected' = greedy_fallback(sequences)
          /\ solver_path' = "hexaly_greedy"
    /\ phase' = "solved"
    /\ UNCHANGED <<maf, routes, vehicles, sequences, IS_HEXALY_ACTIVE,
                   allocation_result, t_route_allocated, baseline>>
    /\ UNCHANGED outsideAlloc

\* UnifiedOptimizer.solve in ALLOCATION_ONLY or INTEGRATED mode, allocation part
UnifiedSolve ==
    /\ phase = "matrix"
    /\ \/ /\ IS_HEXALY_ACTIVE
          /\ \E S \in EngineSolutions(sequences) : selected' = Ascending(S)
          /\ solver_path' = "unified_engine"
       \/ /\ selected' = unified_greedy_allocation(sequences)
          /\ solver_path' = "unified_greedy"
    /\ phase' = "solved"
    /\ UNCHANGED <<maf, routes, vehicles, sequences, IS_HEXALY_ACTIVE,
                   allocation_result, t_route_allocated, baseline>>
    /\ UNCHANGED outsideAlloc

\* AllocationController.run_allocation after the solve: the result is built,
\* an acceptable one replaces the site's rows (_persist_allocation deletes
\* them and inserts the result's allocations) and gets status 'A', any other
\* gets status 'F'.
AllocationValidateAndPersist ==
    /\ phase = "solved"
    /\ solver_path \in {"hexaly_engine", "hexaly_greedy"}
    /\ LET result == create_allocation_result(sequences, selected)
       IN  IF result_is_acceptable(result)
           THEN /\ t_route_allocated' = result.allocations
                /\ allocation_result' = [result EXCEPT !.status = "A"]
           ELSE /\ UNCHANGED t_route_allocated
                /\ allocation_result' = [result EXCEPT !.status = "F"]
    /\ phase' = "persisted"
    /\ UNCHANGED <<maf, routes, vehicles, sequences, selected, solver_path,
                   IS_HEXALY_ACTIVE, baseline>>
    /\ UNCHANGED outsideAlloc

\* The site's MAF parameter constraint_turnaround_time_preferred_enabled is
\* switched from false to true after a solve, and the same vehicles and
\* routes are solved again; the outcome of the first solve is kept.
EnableSoftConstraint ==
    /\ phase = "solved"
    /\ baseline = <<>>
    /\ maf.enabled["turnaround_time_preferred"] = <<FALSE>>
    /\ baseline' = [solver_path |-> solver_path,
                    routes_allocated |-> routes_allocated(sequences, selected),
                    total_score |-> solution_total_score(sequences, selected),
                    optimal |-> IF solver_path \in {"hexaly_engine", "unified_engine"}
                                THEN Range(selected) \in EngineOptimalSolutions(sequences)
                                ELSE FALSE]
    /\ maf' = [maf EXCEPT !.enabled["turnaround_time_preferred"] = <<TRUE>>]
    /\ sequences' = <<>>
    /\ selected' = <<>>
    /\ solver_path' = "none"
    /\ phase' = "loaded"
    /\ UNCHANGED <<routes, vehicles, IS_HEXALY_ACTIVE, allocation_result,
                   t_route_allocated>>
    /\ UNCHANGED outsideAlloc

NextAlloc ==
    \/ BuildAssignmentMatrix
    \/ HexalySolve
    \/ UnifiedSolve
    \/ AllocationValidateAndPersist
    \/ EnableSoftConstraint

SpecAlloc == InitAlloc /\ [][NextAlloc]_vars

----------------------------------------------------------------------------
(* C1: in every selected allocation each vehicle appears in at most one     *)
(* selected sequence and each route id in at most one selected sequence.    *)

SelectedVehicles(v) == { k \in DOMAIN selected : sequences[selected[k]].vehicle_id = v }
SelectedCovering(r) ==
    { k \in DOMAIN selected : r \in Range(sequences[selected[k]].route_sequence) }

\* C1: whenever a solver path has returned, no vehicle is used by two selected
\* sequences and no route id is covered by two selected sequences.
C1_SingleUse ==
    phase = "solved" =>
        /\ \A v \in VehicleIds : Cardinality(SelectedVehicles(v)) <= 1
        /\ \A r \in RouteIds : Cardinality(SelectedCovering(r)) <= 1

\* C1 witness: a greedy path has selected two sequences while a sequence it
\* had to skip (same vehicle or a covered route) was on offer.
C1_Witness ==
    /\ phase = "solved"
    /\ solver_path = "hexaly_greedy"
    /\ Len(selected) >= 2
    /\ Len(sequences) > Len(selected)

----------------------------------------------------------------------------
(* C5: every (vehicle, sequence, cost) triple emitted by the sequence       *)
(* enumerator has route_overlap cost 0 and cost 0 from every hard           *)
(* constraint.                                                              *)

----------------------------------------------------------------------------
(* C25: the total_score of the AllocationResult built from a solver         *)
(* solution equals the sum of the costs of the selected sequences, each     *)
(* selected sequence counted once, and that value is the one the            *)
(* acceptance gate compares with min_score and the one written to the       *)
(* monitor.                                                                 *)

\* C25: once the result is built and validated, its total_score is the sum of
\* the costs of the selected sequences, and the result was accepted exactly
\* when that sum is at least min_score.
C25_TotalScoreIsSumOfCosts ==
    phase = "persisted" =>
        /\ allocation_result.total_score = SumOfCosts(sequences, selected, 1)
        /\ allocation_result.status = "A" <=> SumOfCosts(sequences, selected, 1) >= MinScore

----------------------------------------------------------------------------
(* C19: for the same vehicles and routes, enabling an additional soft       *)
(* constraint (with no new hard constraint) never decreases                 *)
(* routes_allocated and never increases the total score, whether the        *)
(* selection is made by the engine or by the greedy fallback.               *)

EnginePaths == {"hexaly_engine", "unified_engine"}

\* C19: when the same vehicles and routes have been solved again by the same
\* solver path after turnaround_time_preferred was enabled (engine
\* selections being optimal ones), the second selection covers at least as
\* many routes as the first and its total score is not higher.
C19_SoftConstraintMonotone ==
    ( /\ phase = "solved"
      /\ baseline # <<>>
      /\ solver_path = baseline.solver_path
      /\ solver_path \in EnginePaths =>
             /\ baseline.optimal
             /\ Range(selected) \in EngineOptimalSolutions(sequences) )
    => /\ routes_allocated(sequences, selected) >= baseline.routes_allocated
       /\ solution_total_score(sequences, selected) <= baseline.total_score

----------------------------------------------------------------------------
(* C18: for every input in which each route can be served by only one       *)
(* vehicle, the engine's optimal selection and the greedy fallback's         *)
(* selection are the same set of sequences.                                 *)

\* Every route is in the sequences of at most one vehicle
SingleRowCoverage ==
    \A r \in RouteIds :
        Cardinality({ sequences[i].vehicle_id :
                        i \in { n \in DOMAIN sequences :
                                  r \in Range(sequences[n].route_sequence) } }) <= 1

\* C18: when the engine has returned an optimal selection on an input with
\* single-row coverage, the greedy fallback selects the same set of
\* sequences on that input.
C18_EngineEqualsGreedy ==
    ( /\ phase = "solved"
      /\ solver_path = "hexaly_engine"
      /\ SingleRowCoverage
      /\ Range(selected) \in EngineOptimalSolutions(sequences) )
    => Range(selected) = Range(greedy_fallback(sequences))

----------------------------------------------------------------------------
(* C16: when the engine is unavailable, the allocation fallback visits the  *)
(* sequences in descending cost order and selects a sequence exactly when   *)
(* its vehicle is not yet used and none of its routes is yet covered,       *)
(* stopping only when every route of the window is covered or the list is   *)
(* exhausted.                                                               *)

GreedyPaths == {"hexaly_greedy", "unified_greedy"}

\* Position of every sequence in the order of the visit
VisitPositions ==
    LET order == sorted_indices(sequences)
    IN  [idx \in DOMAIN sequences |-> CHOOSE k \in DOMAIN order : order[k] = idx]

\* The sequences selected before idx is visited, given the positions
SelectedBefore(pos, idx) == { j \in Range(selected) : pos[j] < pos[idx] }

VehiclesOf(S) == { sequences[j].vehicle_id : j \in S }
RoutesOf(S) == UNION { Range(sequences[j].route_sequence) : j \in S }

\* C16: when a greedy path has returned, the order of the visit is by
\* non-increasing cost, the selection lists sequences in that order, and a
\* sequence is selected exactly when, at its visit, not every route was
\* covered yet, its vehicle was unused and none of its routes was covered.
C16_GreedySelection ==
    (phase = "solved" /\ solver_path \in GreedyPaths) =>
        LET order == sorted_indices(sequences)
            pos == VisitPositions
        IN  /\ \A k \in 1..(Len(order) - 1) :
                  sequences[order[k]].cost >= sequences[order[k + 1]].cost
            /\ \A a \in 1..(Len(selected) - 1) : pos[selected[a]] < pos[selected[a + 1]]
            /\ \A idx \in DOMAIN sequences :
                  LET before == SelectedBefore(pos, idx) IN
                  idx \in Range(selected) <=>
                      /\ RoutesOf(before) # RouteIds
                      /\ sequences[idx].vehicle_id \notin VehiclesOf(before)
                      /\ Range(sequences[idx].route_sequence) \cap RoutesOf(before) = {}

\* C16 witness: a greedy path has returned having passed over one sequence
\* only because its vehicle was used and another only because one of its
\* routes was covered.
C16_Witness ==
    /\ phase = "solved"
    /\ solver_path \in GreedyPaths
    /\ \E idx \in DOMAIN sequences :
          LET before == SelectedBefore(VisitPositions, idx) IN
          /\ sequences[idx].vehicle_id \in VehiclesOf(before)
          /\ Range(sequences[idx].route_sequence) \cap RoutesOf(before) = {}
    /\ \E idx \in DOMAIN sequences :
          LET before == SelectedBefore(VisitPositions, idx) IN
          /\ sequences[idx].vehicle_id \notin VehiclesOf(before)
          /\ Range(sequences[idx].route_sequence) \cap RoutesOf(before) # {}

----------------------------------------------------------------------------
(* C15: when the window contains routes but no feasible sequence exists for *)
(* any vehicle, the allocation result is marked unacceptable: the run ends  *)
(* with status F and the site's existing allocation rows are not replaced.  *)

\* C15: when the run has ended on an input for which no vehicle has a
\* feasible sequence, the result's status is F and the site's rows are those
\* of before the run.
C15_InfeasibleMarkedFailed ==
    (phase = "persisted" /\ AllSequencesFrom(1) = <<>>) =>
        /\ allocation_result.status = "F"
        /\ t_route_allocated = PriorSiteRows

----------------------------------------------------------------------------
(* C14: the route_overlap constraint is always in force: for every site     *)
(* configuration, including one that sets constraint_route_overlap_enabled  *)
(* to false, a sequence containing a pair i<j with end_i + turnaround >      *)
(* start_j is evaluated as infeasible.                                      *)

\* The sequence holds a pair i < j whose first route ends after the second
\* starts (the turnaround of the overlap test is 0 minutes).
HasOverlappingPair(seq) ==
    \E i \in 1..Len(seq) : \E j \in 1..Len(seq) :
        i < j /\ routes[seq[i]].end > routes[seq[j]].start

\* C14: once the enumerator has run, under the site's MAF parameters every
\* candidate sequence with an overlapping pair is evaluated infeasible for
\* every vehicle, and none is among the emitted sequences.
C14_RouteOverlapInForce ==
    phase \in {"matrix", "solved"} =>
        /\ \A v \in VehicleIds : \A k \in 1..Len(CandidatesFrom(1)) :
              HasOverlappingPair(CandidatesFrom(1)[k])
                  => ~ evaluate_sequence(v, CandidatesFrom(1)[k]).is_feasible
        /\ \A i \in DOMAIN sequences : ~ HasOverlappingPair(sequences[i].route_sequence)

----------------------------------------------------------------------------
(* Charge scheduling: bounds, constants and inputs                          *)

NSlots == 3
NSchedVehicles == 2

SchedVehicleIds == 1..NSchedVehicles

SlotMinutes == 30
TriadPenalty == 100

\* SchedulerController._build_time_slots: slot idx starts SlotMinutes after
\* slot idx - 1; the window starts at minute 0.
time_slots == [idx \in 1..NSlots |-> (idx - 1) * SlotMinutes]

\* SchedulerConfig as loaded: the departure buffer is validated to lie in
\* 15..180 minutes, the SOC percentages default to 75.
SchedConfigInputs ==
    [min_departure_buffer_minutes : {15, 60},
     site_capacity_kw : {40},
     target_soc_percent : {75},
     min_soc_percent : {75}]

\* VehicleChargeState: energies in kWh, charge rate in kW (even, so that half
\* an hour at the rate is a whole number of kWh).
VehicleStateInputs ==
    [SchedVehicleIds ->
        [current_soc_kwh : {5, 30}, battery_capacity_kwh : {40}, ac_charge_rate_kw : {22}]]

\* A vehicle has no planned route, or one route of one slot departing at the
\* start of slot 2..NSlots; route_energy_buffer_kwh is the energy the
\* controller computed for the route.
RoutePlans ==
    {<<>>} \cup
    { <<[plan_start_date_time |-> time_slots[d],
         plan_end_date_time |-> time_slots[d] + SlotMinutes,
         route_energy_buffer_kwh |-> e]>> : d \in 2..NSlots, e \in {25} }

VehicleRouteInputs == [SchedVehicleIds -> RoutePlans]

ForecastInputs == { [idx \in 1..NSlots |-> d] : d \in {0, 25} }

PriceChoices ==
    { [price |-> 1, is_triad |-> FALSE],
      [price |-> 2, is_triad |-> FALSE],
      [price |-> 1, is_triad |-> TRUE] }

PriceInputs == [1..NSlots -> PriceChoices]

----------------------------------------------------------------------------
(* Energy requirements and availability                                     *)

RECURSIVE CumulativeFrom(_, _, _)
CumulativeFrom(rs, k, cumulative_energy) ==
    IF k > Len(rs) THEN <<>>
    ELSE LET c == cumulative_energy + rs[k].route_energy_buffer_kwh
         IN  <<[plan_start_date_time |-> rs[k].plan_start_date_time,
                cumulative_energy_kwh |-> c]>> \o CumulativeFrom(rs, k + 1, c)

\* _calculate_energy_requirements: one checkpoint per route, carrying the
\* running sum of the route energies.
calculate_energy_requirements(v) == CumulativeFrom(vehicle_routes[v], 1, 0)

\* SchedulerController._calculate_availability_matrices for a vehicle at the
\* depot: a slot is unavailable from the departure buffer before a route's
\* start until the route's end.
SchedulerAvailability(v) ==
    [idx \in 1..NSlots |->
        ~ \E k \in DOMAIN vehicle_routes[v] :
            LET route == vehicle_routes[v][k]
                unavailable_start ==
                    route.plan_start_date_time - sched_config.min_departure_buffer_minutes
            IN  /\ unavailable_start <= time_slots[idx]
                /\ time_slots[idx] < route.plan_end_date_time]

\* UnifiedController._calculate_availability_matrices: a slot is unavailable
\* when it overlaps a route.
UnifiedAvailability(v) ==
    [idx \in 1..NSlots |->
        ~ \E k \in DOMAIN vehicle_routes[v] :
            LET route == vehicle_routes[v][k]
                slot_end == time_slots[idx] + SlotMinutes
            IN  /\ time_slots[idx] < route.plan_end_date_time
                /\ slot_end > route.plan_start_date_time]

----------------------------------------------------------------------------
(* Greedy scheduling fallbacks                                              *)

\* slot_prices.sort(key=effective price): a stable sort of the available
\* slots, so equal prices keep slot order.
RECURSIVE SlotsByPrice(_, _)
SlotsByPrice(S, effective_price) ==
    IF S = {} THEN <<>>
    ELSE LET first == CHOOSE i \in S : \A j \in S :
                          \/ effective_price[i] < effective_price[j]
                          \/ effective_price[i] = effective_price[j] /\ i <= j
         IN  <<first>> \o SlotsByPrice(S \ {first}, effective_price)

\* The charging loop: walk the slots in price order until energy_needed is
\* reached; each ChargeSlot records the running total at the moment it is
\* created.
RECURSIVE ChargeCheapest(_, _, _, _, _)
ChargeCheapest(slot_prices, k, cumulative, energy_needed, charge_rate) ==
    IF k > Len(slot_prices) \/ cumulative >= energy_needed THEN <<>>
    ELSE LET energy_this_slot == Min(charge_rate \div 2, energy_needed - cumulative)
             power_this_slot == energy_this_slot * 2
             c == cumulative + energy_this_slot
         IN  <<[time_slot |-> time_slots[slot_prices[k]],
                charge_power_kw |-> power_this_slot,
                cumulative_energy_kwh |-> c]>>
             \o ChargeCheapest(slot_prices, k + 1, c, energy_needed, charge_rate)

\* charge_slots.sort(key=time_slot)
RECURSIVE SortByTime(_)
SortByTime(slots) ==
    IF slots = <<>> THEN <<>>
    ELSE LET first == CHOOSE i \in DOMAIN slots :
                          \A j \in DOMAIN slots : slots[i].time_slot <= slots[j].time_slot
         IN  <<slots[first]>>
             \o SortByTime([n \in 1..(Len(slots) - 1) |->
                               IF n < first THEN slots[n] ELSE slots[n + 1]])

\* The VehicleChargeSchedule built from the loop's output
GreedySchedule(v, availability, effective_price, target_energy_kwh, energy_needed) ==
    LET state == vehicle_states[v]
        available == { idx \in 1..NSlots : availability[idx] }
        in_price_order ==
            IF energy_needed <= 0 THEN <<>>
            ELSE ChargeCheapest(SlotsByPrice(available, effective_price), 1, 0,
                                energy_needed, state.ac_charge_rate_kw)
        cumulative ==
            IF in_price_order = <<>> THEN 0
            ELSE in_price_order[Len(in_price_order)].cumulative_energy_kwh
    IN  [vehicle_id |-> v,
         initial_soc_kwh |-> state.current_soc_kwh,
         target_soc_kwh |-> target_energy_kwh,
         charge_slots |-> SortByTime(in_price_order),
         total_energy_scheduled_kwh |-> cumulative]

\* ChargeOptimizer._greedy_fallback, one vehicle
charge_greedy_fallback(v) ==
    LET state == vehicle_states[v]
        requirements == calculate_energy_requirements(v)
        min_soc_kwh == (sched_config.min_soc_percent * state.battery_capacity_kwh) \div 100
        effective_target == Max(sched_config.target_soc_percent, sched_config.min_soc_percent)
        target_energy_kwh ==
            IF requirements # <<>>
            THEN Max(requirements[Len(requirements)].cumulative_energy_kwh
                         + state.current_soc_kwh, min_soc_kwh)
            ELSE (effective_target * state.battery_capacity_kwh) \div 100
        energy_needed == target_energy_kwh - state.current_soc_kwh
        effective_price ==
            [idx \in 1..NSlots |->
                price_data[idx].price + (IF price_data[idx].is_triad THEN TriadPenalty ELSE 0)]
    IN  GreedySchedule(v, SchedulerAvailability(v), effective_price,
                       target_energy_kwh, energy_needed)

\* UnifiedOptimizer._greedy_fallback, scheduling part, one vehicle
unified_greedy_schedule(v) ==
    LET state == vehicle_states[v]
        requirements == calculate_energy_requirements(v)
        target_soc_kwh == (sched_config.target_soc_percent * state.battery_capacity_kwh) \div 100
        target_energy_kwh ==
            IF requirements # <<>>
            THEN Max(requirements[Len(requirements)].cumulative_energy_kwh, target_soc_kwh)
            ELSE target_soc_kwh
        energy_needed == Max(0, target_energy_kwh - state.current_soc_kwh)
        effective_price == [idx \in 1..NSlots |-> price_data[idx].price]
    IN  GreedySchedule(v, UnifiedAvailability(v), effective_price,
                       target_energy_kwh, energy_needed)

----------------------------------------------------------------------------
(* Schedule validation                                                      *)

\* SchedulerController._validate_schedule, inner loop: the recorded running
\* total of the last charge slot before the checkpoint's departure.
cumulative_at_checkpoint(vehicle_schedule, requirement) ==
    LET slots == vehicle_schedule.charge_slots
        before == { n \in DOMAIN slots :
                      \A m \in 1..n : slots[m].time_slot < requirement.plan_start_date_time }
    IN  IF before = {} THEN vehicle_schedule.initial_soc_kwh
        ELSE LET last == CHOOSE n \in before : \A m \in before : m <= n
             IN  vehicle_schedule.initial_soc_kwh + slots[last].cumulative_energy_kwh

\* SchedulerController._validate_schedule: validation_passed is cleared when
\* some checkpoint of some vehicle shows a shortfall.
scheduler_validate_schedule ==
    \A v \in SchedVehicleIds :
        LET requirements == calculate_energy_requirements(v)
        IN  \A k \in DOMAIN requirements :
                cumulative_at_checkpoint(vehicle_schedules[v], requirements[k])
                    >= requirements[k].cumulative_energy_kwh

----------------------------------------------------------------------------
(* Persisting the schedule                                                  *)

\* Rows an earlier run left under the schedule_id
PriorScheduleTables ==
    { <<[vehicle_id |-> 1, charge_start_date_time |-> 0, charge_power |-> 3]>> }

\* The rows that hold only the slots in which the vehicle charges
SparseScheduleRows(vehicle_schedule) ==
    [n \in DOMAIN vehicle_schedule.charge_slots |->
        [vehicle_id |-> vehicle_schedule.vehicle_id,
         charge_start_date_time |-> vehicle_schedule.charge_slots[n].time_slot,
         charge_power |-> vehicle_schedule.charge_slots[n].charge_power_kw]]

\* _persist_schedule, inner loop: one row per slot of all_time_slots, with
\* slot_power_map.get(slot_time, 0.0) as its power.
ScheduleRows(vehicle_schedule) ==
    [idx \in 1..NSlots |->
        LET charging == { n \in DOMAIN vehicle_schedule.charge_slots :
                            vehicle_schedule.charge_slots[n].time_slot = time_slots[idx] }
        IN  [vehicle_id |-> vehicle_schedule.vehicle_id,
             charge_start_date_time |-> time_slots[idx],
             charge_power |->
                 IF charging = {} THEN 0
                 ELSE vehicle_schedule.charge_slots[
                          CHOOSE n \in charging : \A m \in charging : m <= n].charge_power_kw]]

\* _persist_schedule, outer loop over result.vehicle_schedules
RECURSIVE InsertedRows(_, _)
InsertedRows(schedules, k) ==
    IF k > Len(schedules) THEN <<>>
    ELSE ScheduleRows(schedules[k]) \o InsertedRows(schedules, k + 1)

----------------------------------------------------------------------------
(* Specification SpecSched: one scheduling run that takes a greedy fallback *)
(* (the engine is inactive or raised), followed by validation.              *)

\* The allocation pipeline when no allocation is in progress
AllocIdle ==
    /\ maf = MafDefault
    /\ routes = <<>>
    /\ vehicles = <<>>
    /\ sequences = <<>>
    /\ selected = <<>>
    /\ solver_path = "none"
    /\ IS_HEXALY_ACTIVE = FALSE
    /\ allocation_result = NoResult
    /\ t_route_allocated = {}
    /\ baseline = <<>>
    /\ phase = "idle"

InitSched ==
    /\ WindowIdle
    /\ RepeatIdle
    /\ SlotsIdle
    /\ LoadIdle
    /\ AllocIdle
    /\ RunIdle
    /\ ConnIdle
    /\ sched_config \in SchedConfigInputs
    /\ vehicle_states \in VehicleStateInputs
    /\ vehicle_routes \in VehicleRouteInputs
    /\ forecast_data \in ForecastInputs
    /\ price_data \in PriceInputs
    /\ sched_pipeline = "none"
    /\ vehicle_schedules = <<>>
    /\ validation_passed = TRUE
    /\ t_charge_schedule \in PriorScheduleTables
    /\ sched_phase = "loaded"

\* SchedulerController._run_optimization -> ChargeOptimizer.optimize ->
\* _greedy_fallback; the result object starts with validation_passed = True.
ChargeGreedyFallback ==
    /\ sched_phase = "loaded"
    /\ sched_pipeline' = "scheduler"
    /\ vehicle_schedules' = [v \in SchedVehicleIds |-> charge_greedy_fallback(v)]
    /\ validation_passed' = TRUE
    /\ sched_phase' = "optimized"
    /\ UNCHANGED <<sched_config, vehicle_states, vehicle_routes, forecast_data, price_data,
                   t_charge_schedule>>
    /\ UNCHANGED outsideSched

\* UnifiedController -> UnifiedOptimizer.solve -> _greedy_fallback, scheduling part
UnifiedGreedyFallback ==
    /\ sched_phase = "loaded"
    /\ sched_pipeline' = "unified"
    /\ vehicle_schedules' = [v \in SchedVehicleIds |-> unified_greedy_schedule(v)]
    /\ validation_passed' = TRUE
    /\ sched_phase' = "optimized"
    /\ UNCHANGED <<sched_config, vehicle_states, vehicle_routes, forecast_data, price_data,
                   t_charge_schedule>>
    /\ UNCHANGED outsideSched

\* SchedulerController._validate_schedule
SchedulerValidateSchedule ==
    /\ sched_phase = "optimized"
    /\ sched_pipeline = "scheduler"
    /\ validation_passed' = (validation_passed /\ scheduler_validate_schedule)
    /\ sched_phase' = "validated"
    /\ UNCHANGED <<sched_config, vehicle_states, vehicle_routes, forecast_data, price_data,
                   sched_pipeline, vehicle_schedules, t_charge_schedule>>
    /\ UNCHANGED outsideSched

\* UnifiedController._validate_schedule: a final SOC below the largest
\* requirement is logged as a warning; the result is left as it is.
UnifiedValidateSchedule ==
    /\ sched_phase = "optimized"
    /\ sched_pipeline = "unified"
    /\ sched_phase' = "validated"
    /\ UNCHANGED <<sched_config, vehicle_states, vehicle_routes, forecast_data, price_data,
                   sched_pipeline, vehicle_schedules, validation_passed, t_charge_schedule>>
    /\ UNCHANGED outsideSched

\* _persist_schedule of either controller: the rows of the schedule_id are
\* deleted, then the rows of every vehicle schedule are inserted in turn.
PersistSchedule ==
    /\ sched_phase = "validated"
    /\ t_charge_schedule' = InsertedRows(vehicle_schedules, 1)
    /\ sched_phase' = "persisted"
    /\ UNCHANGED <<sched_config, vehicle_states, vehicle_routes, forecast_data, price_data,
                   sched_pipeline, vehicle_schedules, validation_passed>>
    /\ UNCHANGED outsideSched

NextSched ==
    \/ ChargeGreedyFallback
    \/ UnifiedGreedyFallback
    \/ SchedulerValidateSchedule
    \/ UnifiedValidateSchedule
    \/ PersistSchedule

SpecSched == InitSched /\ [][NextSched]_vars

----------------------------------------------------------------------------
(* C2: in every produced schedule, for every 30-minute slot the sum over    *)
(* all vehicles of charge power is at most max(0, site_cap - forecast)      *)
(* plus a small tolerance.                                                  *)

RECURSIVE SumOver(_, _)
SumOver(S, f) ==
    IF S = {} THEN 0
    ELSE LET x == CHOOSE y \in S : TRUE IN f[x] + SumOver(S \ {x}, f)

PowerAt(v, idx) ==
    LET slots == vehicle_schedules[v].charge_slots
        at == { n \in DOMAIN slots : slots[n].time_slot = time_slots[idx] }
    IN  SumOver(at, [n \in at |-> slots[n].charge_power_kw])

TotalPowerAt(idx) == SumOver(SchedVehicleIds, [v \in SchedVehicleIds |-> PowerAt(v, idx)])

\* C2: once a schedule is produced, the total charge power of every slot is
\* within the site headroom max(0, site_capacity_kw - forecast) of that slot,
\* allowing 1 kW of tolerance.
C2_SiteCapacity ==
    sched_phase \in {"optimized", "validated"} =>
        \A idx \in 1..NSlots :
            TotalPowerAt(idx)
                <= Max(0, sched_config.site_capacity_kw - forecast_data[idx]) + 1

----------------------------------------------------------------------------
(* C3: for every vehicle and every route checkpoint, the initial SOC plus   *)
(* the energy charged strictly before the departure is at least the         *)
(* required cumulative energy, or validation reports a shortfall.           *)

EnergyBefore(v, departure) ==
    LET slots == vehicle_schedules[v].charge_slots
        before == { n \in DOMAIN slots : slots[n].time_slot < departure }
    IN  SumOver(before, [n \in before |-> slots[n].charge_power_kw \div 2])

\* C3: after validation, each checkpoint is either covered by the initial SOC
\* plus the energy of the slots before its departure (within 1 kWh), or
\* validation did not pass.
C3_CheckpointOrShortfall ==
    sched_phase = "validated" =>
        \A v \in SchedVehicleIds :
            LET requirements == calculate_energy_requirements(v)
            IN  \A k \in DOMAIN requirements :
                    \/ vehicle_schedules[v].initial_soc_kwh
                           + EnergyBefore(v, requirements[k].plan_start_date_time)
                         >= requirements[k].cumulative_energy_kwh - 1
                    \/ ~ validation_passed

----------------------------------------------------------------------------
(* C12: in every produced schedule a vehicle has charge power 0 in every    *)
(* slot in which it is unavailable: on route, from min_departure_buffer     *)
(* before a planned route's start, and for the whole horizon when VOR.      *)

\* The slot lies between min_departure_buffer before the start of one of the
\* vehicle's planned routes and that route's end.
DepartureUnavailable(v, idx) ==
    \E k \in DOMAIN vehicle_routes[v] :
        /\ vehicle_routes[v][k].plan_start_date_time
               - sched_config.min_departure_buffer_minutes <= time_slots[idx]
        /\ time_slots[idx] < vehicle_routes[v][k].plan_end_date_time

\* C12: once a schedule is produced, by the standalone or by the unified
\* pipeline, no vehicle is given charge power in a slot that lies in the
\* departure buffer of, or during, one of its planned routes.
C12_UnavailableZeroPower ==
    sched_phase \in {"optimized", "validated"} =>
        \A v \in SchedVehicleIds : \A idx \in 1..NSlots :
            DepartureUnavailable(v, idx) => PowerAt(v, idx) = 0

----------------------------------------------------------------------------
(* C17: every scheduling fallback orders a vehicle's available slots by     *)
(* effective_price = price + 100 for TRIAD slots, so a vehicle is given     *)
(* energy in a TRIAD slot only when all its available non-TRIAD slots with  *)
(* price below that TRIAD slot's price + 100 are already filled at the      *)
(* vehicle's rate.                                                          *)

\* The availability the pipeline that produced the schedule worked with
PipelineAvailability(v) ==
    IF sched_pipeline = "scheduler" THEN SchedulerAvailability(v) ELSE UnifiedAvailability(v)

\* C17: once a fallback has produced a schedule, a vehicle charging in a
\* TRIAD slot charges at its full rate in each of its available non-TRIAD
\* slots whose price is below the TRIAD slot's price + 100.
C17_TriadLast ==
    sched_phase \in {"optimized", "validated"} =>
        \A v \in SchedVehicleIds : \A t \in 1..NSlots :
            (price_data[t].is_triad /\ PowerAt(v, t) > 0) =>
                \A n \in 1..NSlots :
                    ( /\ PipelineAvailability(v)[n]
                      /\ ~ price_data[n].is_triad
                      /\ price_data[n].price < price_data[t].price + TriadPenalty )
                    => PowerAt(v, n) = vehicle_states[v].ac_charge_rate_kw

----------------------------------------------------------------------------
(* C21: after a schedule is persisted, charge_schedule holds exactly one    *)
(* row for every (scheduled vehicle, slot of the planning grid) pair of     *)
(* that schedule_id, with power 0 in the rows of slots in which the         *)
(* vehicle does not charge.                                                 *)

\* The rows of the table for a vehicle and a slot start
RowsFor(vehicle_id, slot_time) ==
    { n \in DOMAIN t_charge_schedule :
        /\ t_charge_schedule[n].vehicle_id = vehicle_id
        /\ t_charge_schedule[n].charge_start_date_time = slot_time }

\* The charge slots of a vehicle schedule that start at a slot start
ChargingAt(v, idx) ==
    { n \in DOMAIN vehicle_schedules[v].charge_slots :
        vehicle_schedules[v].charge_slots[n].time_slot = time_slots[idx] }

\* C21: once the schedule is persisted, every (vehicle schedule, grid slot)
\* pair has exactly one row, no row lies outside these pairs, and the row of
\* a slot without a charge slot carries power 0, the row of a charging slot
\* that slot's power.
C21_DenseGrid ==
    sched_phase = "persisted" =>
        /\ \A v \in DOMAIN vehicle_schedules : \A idx \in 1..NSlots :
               /\ Cardinality(RowsFor(vehicle_schedules[v].vehicle_id, time_slots[idx])) = 1
               /\ \A n \in RowsFor(vehicle_schedules[v].vehicle_id, time_slots[idx]) :
                      IF ChargingAt(v, idx) = {}
                      THEN t_charge_schedule[n].charge_power = 0
                      ELSE \E m \in ChargingAt(v, idx) :
                              t_charge_schedule[n].charge_power
                                  = vehicle_schedules[v].charge_slots[m].charge_power_kw
        /\ Len(t_charge_schedule) = Len(vehicle_schedules) * NSlots

\* C21 witness: a persisted schedule in which a vehicle charges in one slot
\* and not in another.
C21_Witness ==
    /\ sched_phase = "persisted"
    /\ \E v \in DOMAIN vehicle_schedules : \E i, j \in 1..NSlots :
           /\ ChargingAt(v, i) # {}
           /\ ChargingAt(v, j) = {}
           /\ \E n \in RowsFor(vehicle_schedules[v].vehicle_id, time_slots[j]) :
                  t_charge_schedule[n].charge_power = 0

----------------------------------------------------------------------------
(* C29: in every vehicle schedule, the cumulative energy recorded on a      *)
(* charge slot equals the sum of 0.5 * power over that vehicle's charge     *)
(* slots up to and including that slot in time order, so it is              *)
(* non-decreasing in slot time.                                             *)

\* The energy of the vehicle's charge slots that start no later than slot_time
EnergyUpTo(v, slot_time) ==
    LET slots == vehicle_schedules[v].charge_slots
        upto == { n \in DOMAIN slots : slots[n].time_slot <= slot_time }
    IN  SumOver(upto, [n \in upto |-> slots[n].charge_power_kw \div 2])

\* C29: once a schedule is produced, each charge slot of each vehicle records
\* as cumulative energy the sum of half its power and half the power of the
\* vehicle's earlier charge slots.
C29_CumulativeInTimeOrder ==
    sched_phase \in {"optimized", "validated", "persisted"} =>
        \A v \in SchedVehicleIds :
            \A n \in DOMAIN vehicle_schedules[v].charge_slots :
                vehicle_schedules[v].charge_slots[n].cumulative_energy_kwh
                    = EnergyUpTo(v, vehicle_schedules[v].charge_slots[n].time_slot)

----------------------------------------------------------------------------
(* C30: in every produced schedule the total energy scheduled for a vehicle *)
(* is at most its battery capacity minus its initial SOC, so no vehicle is  *)
(* scheduled above its battery capacity.                                    *)

\* C30: once a schedule is produced, each vehicle's total_energy_scheduled_kwh
\* fits in the room its battery has left above the initial SOC.
C30_WithinBatteryCapacity ==
    sched_phase \in {"optimized", "validated", "persisted"} =>
        \A v \in SchedVehicleIds :
            vehicle_schedules[v].total_energy_scheduled_kwh
                <= vehicle_states[v].battery_capacity_kwh
                       - vehicle_schedules[v].initial_soc_kwh

----------------------------------------------------------------------------
(* Specification SpecWindow: the planning window of a scheduling run.       *)
(* Times are whole hours from planning_start.                               *)

MinimumWindowHours == 4

\* SchedulerConfig.validate accepts planning_window_hours in 4..24; the
\* unified run takes the site's allocation_window_hours or the caller's
\* override.
WindowHoursInputs == {4, 8, 18, 24}

\* MAX(timestamp) of the forecast and of the price table: no row, or a time
\* some hours after planning_start.
HorizonInputs == {Absent} \cup { <<h>> : h \in {0, 3, 4, 6, 10, 30} }

\* "planning_end = min(constraints)": the target end and each horizon that
\* is present
planning_end ==
    Min(window_hours,
        Min(IF max_forecast_time = Absent THEN window_hours ELSE max_forecast_time[1],
            IF max_price_time = Absent THEN window_hours ELSE max_price_time[1]))

InitWindow ==
    /\ RepeatIdle
    /\ SlotsIdle
    /\ LoadIdle
    /\ AllocIdle
    /\ SchedIdle
    /\ RunIdle
    /\ ConnIdle
    /\ window_entry \in {"scheduler", "unified"}
    /\ window_hours \in WindowHoursInputs
    /\ max_forecast_time \in HorizonInputs
    /\ max_price_time \in HorizonInputs
    /\ actual_hours = 0
    /\ window_phase = "start"

\* SchedulerController._calculate_planning_window, and the check
\* run_scheduling makes on its result: "if actual_hours < 4.0: raise"
SchedulerCalculatePlanningWindow ==
    /\ window_entry = "scheduler"
    /\ window_phase = "start"
    /\ actual_hours' = planning_end
    /\ window_phase' = IF planning_end < MinimumWindowHours THEN "raised" ELSE "window"
    /\ UNCHANGED <<window_entry, window_hours, max_forecast_time, max_price_time>>
    /\ UNCHANGED outsideWindow

\* UnifiedController._calculate_planning_window:
\* "if actual_hours < window_hours/2: raise"
UnifiedCalculatePlanningWindow ==
    /\ window_entry = "unified"
    /\ window_phase = "start"
    /\ actual_hours' = planning_end
    /\ window_phase' = IF 2 * planning_end < window_hours THEN "raised" ELSE "window"
    /\ UNCHANGED <<window_entry, window_hours, max_forecast_time, max_price_time>>
    /\ UNCHANGED outsideWindow

\* The run goes on to load its inputs and invoke the solver
InvokeSolver ==
    /\ window_phase = "window"
    /\ window_phase' = "solving"
    /\ UNCHANGED <<window_entry, window_hours, max_forecast_time, max_price_time,
                   actual_hours>>
    /\ UNCHANGED outsideWindow

NextWindow ==
    \/ SchedulerCalculatePlanningWindow
    \/ UnifiedCalculatePlanningWindow
    \/ InvokeSolver

SpecWindow == InitWindow /\ [][NextWindow]_vars

----------------------------------------------------------------------------
(* C13: in every entry point that computes a planning window, whenever the  *)
(* available horizon min(target, forecast_hours, price_hours) is less than  *)
(* half the target window, the run raises before the solver is invoked.     *)

\* min(target, forecast_hours, price_hours) over the horizons that exist
AvailableHorizon ==
    LET hours == {window_hours}
                   \cup (IF max_forecast_time = Absent THEN {} ELSE {max_forecast_time[1]})
                   \cup (IF max_price_time = Absent THEN {} ELSE {max_price_time[1]})
    IN  CHOOSE h \in hours : \A g \in hours : h <= g

\* C13: the solver is never invoked in a run whose available horizon is less
\* than half its target window.
C13_ShortWindowRaises ==
    window_phase = "solving" => ~ (2 * AvailableHorizon < window_hours)

----------------------------------------------------------------------------
(* Runs against the store                                                   *)
(*                                                                          *)
(* Every database call goes through DatabaseConnection.get_cursor on the    *)
(* one connection of the process: statements join the connection's open     *)
(* transaction, leaving the block commits it, psycopg2.Error rolls it back, *)
(* any other exception leaves it open.                                      *)

NRows == 2

Scores == {-5, -4, 0}

\* Rows of t_route_allocated for the site, and of t_charge_schedule for the
\* schedule: the rows of an earlier run, and the rows this run writes.
PriorAllocationRows == {"prior"}
NewAllocationRows == {"new"}
PriorScheduleRows == {0}
NewScheduleRows == 1..NRows

has_allocation ==
    \/ run_kind = "allocation"
    \/ run_kind = "unified" /\ opt_mode \in {"allocation_only", "integrated"}

has_schedule ==
    \/ run_kind = "scheduler"
    \/ run_kind = "unified" /\ opt_mode \in {"scheduling_only", "integrated"}

\* AllocationResult.is_acceptable
is_acceptable == total_score >= MinScore

\* get_cursor, normal exit: the statement is executed and conn.commit() makes
\* everything pending on the connection visible.
ExecuteAndCommit(w) ==
    /\ working' = w
    /\ committed' = w

\* The persist steps in the other order: the schedule is persisted straight
\* after the solve whenever the run has one.
AfterLoadScheduleFirst ==
    IF run_kind = "unified" /\ ~ persist_to_database THEN "return"
    ELSE IF has_schedule THEN "persist_schedule_delete"
    ELSE "gate"

\* Where a run continues after each phase
AfterLoad ==
    IF run_kind = "unified" /\ ~ persist_to_database THEN "return"
    ELSE IF has_allocation THEN "gate"
    ELSE "persist_schedule_delete"

AfterAllocation ==
    IF run_kind = "unified" /\ has_schedule THEN "persist_schedule_delete" ELSE "return"

AfterRun == IF via_workflow THEN "workflow" ELSE "done"

InitRun ==
    /\ WindowIdle
    /\ RepeatIdle
    /\ SlotsIdle
    /\ LoadIdle
    /\ AllocIdle
    /\ SchedIdle
    /\ ConnIdle
    /\ run_kind \in {"allocation", "scheduler", "unified"}
    /\ via_workflow \in (IF run_kind = "unified" THEN {FALSE} ELSE BOOLEAN)
    /\ opt_mode \in (IF run_kind = "unified"
                     THEN {"allocation_only", "scheduling_only", "integrated"}
                     ELSE {"none"})
    /\ persist_to_database \in (IF run_kind = "unified" THEN BOOLEAN ELSE {TRUE})
    /\ schedule_id \in (IF has_schedule /\ ~ via_workflow THEN {"none", "given"} ELSE {"none"})
    /\ \E alloc_rows \in {{}, PriorAllocationRows} :
       \E sched_rows \in (IF schedule_id = "given" THEN {{}, PriorScheduleRows} ELSE {{}}) :
          /\ committed = [allocation_monitor |-> "absent",
                          scheduler |-> IF schedule_id = "given" THEN "completed" ELSE "absent",
                          route_allocated |-> alloc_rows,
                          route_allocated_history |-> alloc_rows,
                          charge_schedule |-> sched_rows]
          /\ rows_before = [route_allocated |-> alloc_rows, charge_schedule |-> sched_rows]
    /\ working = committed
    /\ pc = "start"
    /\ allocation_id = FALSE
    /\ total_score = 0
    /\ result_status = "none"
    /\ raised = "none"
    /\ persist_aborted = "none"
    /\ caller_sees = "nothing"

\* AllocationController._initialize_allocation
InitializeAllocation ==
    /\ run_kind = "allocation"
    /\ pc = "start"
    /\ ExecuteAndCommit([working EXCEPT !.allocation_monitor = "N"])
    /\ allocation_id' = TRUE
    /\ pc' = "load"
    /\ UNCHANGED <<run_kind, via_workflow, opt_mode, persist_to_database, schedule_id,
                   total_score, result_status, rows_before, raised, persist_aborted,
                   caller_sees>>
    /\ UNCHANGED outsideRun

\* SchedulerController.run_scheduling, configuration: _load_scheduler_config
\* when a schedule_id was given, else _create_scheduler_config
LoadOrCreateSchedulerConfig ==
    /\ run_kind = "scheduler"
    /\ pc = "start"
    /\ IF schedule_id = "none"
       THEN /\ ExecuteAndCommit([working EXCEPT !.scheduler = "running"])
            /\ schedule_id' = "created"
       ELSE /\ ExecuteAndCommit(working)
            /\ UNCHANGED schedule_id
    /\ pc' = "load"
    /\ UNCHANGED <<run_kind, via_workflow, opt_mode, persist_to_database, allocation_id,
                   total_score, result_status, rows_before, raised, persist_aborted,
                   caller_sees>>
    /\ UNCHANGED outsideRun

\* UnifiedController._initialize_optimization
InitializeOptimization ==
    /\ run_kind = "unified"
    /\ pc = "start"
    /\ LET creates_scheduler == has_schedule /\ schedule_id = "none"
           w1 == IF has_allocation THEN [working EXCEPT !.allocation_monitor = "N"]
                 ELSE working
           w2 == IF creates_scheduler THEN [w1 EXCEPT !.scheduler = "running"] ELSE w1
       IN  /\ ExecuteAndCommit(w2)
           /\ allocation_id' = has_allocation
           /\ schedule_id' = IF creates_scheduler THEN "created" ELSE schedule_id
    /\ pc' = "load"
    /\ UNCHANGED <<run_kind, via_workflow, opt_mode, persist_to_database,
                   total_score, result_status, rows_before, raised, persist_aborted,
                   caller_sees>>
    /\ UNCHANGED outsideRun

\* Loading the inputs, solving and building the result objects; an allocation
\* result is created with status 'P' and carries the solver's total score.
LoadAndOptimize ==
    /\ pc = "load"
    /\ IF has_allocation
       THEN /\ total_score' \in Scores
            /\ result_status' = "P"
       ELSE UNCHANGED <<total_score, result_status>>
    /\ pc' = AfterLoad
    /\ UNCHANGED <<run_kind, via_workflow, opt_mode, persist_to_database, allocation_id,
                   schedule_id, committed, working, rows_before, raised, persist_aborted,
                   caller_sees>>
    /\ UNCHANGED outsideRun

\* The acceptance branch: run_allocation sets status 'F' on rejection, the
\* unified run only skips persistence.
AcceptanceGate ==
    /\ pc = "gate"
    /\ IF is_acceptable
       THEN /\ pc' = "delete_site_allocations"
            /\ UNCHANGED result_status
       ELSE /\ pc' = "update_allocation_monitor"
            /\ result_status' = IF run_kind = "allocation" THEN "F" ELSE result_status
    /\ UNCHANGED <<run_kind, via_workflow, opt_mode, persist_to_database, allocation_id,
                   schedule_id, total_score, committed, working, rows_before, raised,
                   persist_aborted, caller_sees>>
    /\ UNCHANGED outsideRun

\* What a run never changes after it has started
runInputs == <<run_kind, via_workflow, opt_mode, persist_to_database, rows_before>>

\* _persist_allocation, first call: db.execute_query(DELETE_SITE_ALLOCATIONS)
DeleteSiteAllocations ==
    /\ pc = "delete_site_allocations"
    /\ ExecuteAndCommit([working EXCEPT !.route_allocated = {}])
    /\ pc' = "insert_route_allocated"
    /\ UNCHANGED <<runInputs, allocation_id, schedule_id, total_score, result_status,
                   raised, persist_aborted, caller_sees>>
    /\ UNCHANGED outsideRun

\* _persist_allocation, second call: db.execute_many(INSERT_ROUTE_ALLOCATED)
InsertRouteAllocated ==
    /\ pc = "insert_route_allocated"
    /\ ExecuteAndCommit([working EXCEPT !.route_allocated = @ \cup NewAllocationRows])
    /\ pc' = "insert_route_allocated_history"
    /\ UNCHANGED <<runInputs, allocation_id, schedule_id, total_score, result_status,
                   raised, persist_aborted, caller_sees>>
    /\ UNCHANGED outsideRun

\* _persist_allocation, third call: db.execute_many(INSERT_ROUTE_ALLOCATED_HISTORY);
\* run_allocation then sets status 'A'.
InsertRouteAllocatedHistory ==
    /\ pc = "insert_route_allocated_history"
    /\ ExecuteAndCommit([working EXCEPT !.route_allocated_history = @ \cup NewAllocationRows])
    /\ result_status' = IF run_kind = "allocation" THEN "A" ELSE result_status
    /\ pc' = "update_allocation_monitor"
    /\ UNCHANGED <<runInputs, allocation_id, schedule_id, total_score,
                   raised, persist_aborted, caller_sees>>
    /\ UNCHANGED outsideRun

\* _update_allocation_monitor: writes result.status to the monitor record
UpdateAllocationMonitor ==
    /\ pc = "update_allocation_monitor"
    /\ ExecuteAndCommit([working EXCEPT !.allocation_monitor = result_status])
    /\ pc' = AfterAllocation
    /\ UNCHANGED <<runInputs, allocation_id, schedule_id, total_score, result_status,
                   raised, persist_aborted, caller_sees>>
    /\ UNCHANGED outsideRun

\* _persist_schedule, inside the get_cursor block: DELETE_CHARGE_SCHEDULE_BY_SCHEDULE_ID
PersistScheduleDelete ==
    /\ pc = "persist_schedule_delete"
    /\ working' = [working EXCEPT !.charge_schedule = {}]
    /\ pc' = "persist_schedule_insert"
    /\ UNCHANGED <<runInputs, allocation_id, schedule_id, total_score, result_status,
                   committed, raised, persist_aborted, caller_sees>>
    /\ UNCHANGED outsideRun

\* _persist_schedule, inside the block: one INSERT_CHARGE_SCHEDULE of the loop
PersistScheduleInsert ==
    /\ pc = "persist_schedule_insert"
    /\ \E row \in NewScheduleRows :
          /\ row \notin working.charge_schedule
          /\ \A earlier \in 1..(row - 1) : earlier \in working.charge_schedule
          /\ working' = [working EXCEPT !.charge_schedule = @ \cup {row}]
    /\ UNCHANGED <<runInputs, pc, allocation_id, schedule_id, total_score, result_status,
                   committed, raised, persist_aborted, caller_sees>>
    /\ UNCHANGED outsideRun

\* _persist_schedule, leaving the block: conn.commit()
PersistScheduleCommit ==
    /\ pc = "persist_schedule_insert"
    /\ NewScheduleRows \subseteq working.charge_schedule
    /\ committed' = working
    /\ pc' = "update_scheduler_status"
    /\ UNCHANGED <<runInputs, allocation_id, schedule_id, total_score, result_status,
                   working, raised, persist_aborted, caller_sees>>
    /\ UNCHANGED outsideRun

\* _update_scheduler_status('completed', actual_hours)
UpdateSchedulerStatus ==
    /\ pc = "update_scheduler_status"
    /\ ExecuteAndCommit([working EXCEPT !.scheduler = "completed"])
    /\ pc' = "return"
    /\ UNCHANGED <<runInputs, allocation_id, schedule_id, total_score, result_status,
                   raised, persist_aborted, caller_sees>>
    /\ UNCHANGED outsideRun

\* The run returns its result
Return ==
    /\ pc = "return"
    /\ pc' = AfterRun
    /\ caller_sees' = IF via_workflow THEN caller_sees ELSE "result"
    /\ UNCHANGED <<runInputs, allocation_id, schedule_id, total_score, result_status,
                   committed, working, raised, persist_aborted>>
    /\ UNCHANGED outsideRun

----------------------------------------------------------------------------
(* Failures of a step. A run is given at most one failure, in its try body. *)

DatabaseStepPcs ==
    {"start", "delete_site_allocations", "insert_route_allocated",
     "insert_route_allocated_history", "update_allocation_monitor",
     "persist_schedule_delete", "persist_schedule_insert", "update_scheduler_status"}

\* The persist step that has begun but not finished at a position
PersistUnderWay(at) ==
    CASE at \in {"insert_route_allocated", "insert_route_allocated_history"} -> "allocation"
      [] at = "persist_schedule_insert" -> "schedule"
      [] OTHER -> "none"

\* get_cursor, except psycopg2.Error: conn.rollback() and re-raise
GetCursorDatabaseError ==
    /\ pc \in DatabaseStepPcs
    /\ raised = "none"
    /\ working' = committed
    /\ raised' = "psycopg2.Error"
    /\ persist_aborted' = PersistUnderWay(pc)
    /\ pc' = "except"
    /\ UNCHANGED <<runInputs, allocation_id, schedule_id, total_score, result_status,
                   committed, caller_sees>>
    /\ UNCHANGED outsideRun

\* An exception that is not a psycopg2.Error, raised by a load or solve step
\* or by the code between two statements of the _persist_schedule block:
\* get_cursor only closes the cursor, the transaction stays open.
StepRaisesException ==
    /\ pc \in {"load", "persist_schedule_insert"}
    /\ raised = "none"
    /\ raised' = "Exception"
    /\ persist_aborted' = PersistUnderWay(pc)
    /\ pc' = "except"
    /\ UNCHANGED <<runInputs, allocation_id, schedule_id, total_score, result_status,
                   committed, working, caller_sees>>
    /\ UNCHANGED outsideRun

\* KeyboardInterrupt: not an Exception, so neither get_cursor nor the run's
\* handler nor the workflow catches it; it reaches the command line.
Interrupt ==
    /\ pc \in {"load", "insert_route_allocated", "insert_route_allocated_history",
               "persist_schedule_insert"}
    /\ raised = "none"
    /\ raised' = "KeyboardInterrupt"
    /\ persist_aborted' = PersistUnderWay(pc)
    /\ caller_sees' = "KeyboardInterrupt"
    /\ pc' = "done"
    /\ UNCHANGED <<runInputs, allocation_id, schedule_id, total_score, result_status,
                   committed, working>>
    /\ UNCHANGED outsideRun

\* run_allocation, except Exception: _log_error writes the error log through
\* get_cursor, the monitor is set to 'F' when it exists, and the exception is
\* re-raised.
AllocationExcept ==
    /\ run_kind = "allocation"
    /\ pc = "except"
    /\ ExecuteAndCommit([working EXCEPT
                            !.allocation_monitor = IF allocation_id THEN "F" ELSE @])
    /\ result_status' = "F"
    /\ caller_sees' = IF via_workflow THEN caller_sees ELSE raised
    /\ pc' = AfterRun
    /\ UNCHANGED <<runInputs, allocation_id, schedule_id, total_score, raised,
                   persist_aborted>>
    /\ UNCHANGED outsideRun

\* run_scheduling, except Exception: status 'failed' when schedule_id is set,
\* then re-raise.
SchedulerExcept ==
    /\ run_kind = "scheduler"
    /\ pc = "except"
    /\ IF schedule_id # "none"
       THEN ExecuteAndCommit([working EXCEPT !.scheduler = "failed"])
       ELSE UNCHANGED <<committed, working>>
    /\ caller_sees' = IF via_workflow THEN caller_sees ELSE raised
    /\ pc' = AfterRun
    /\ UNCHANGED <<runInputs, allocation_id, schedule_id, total_score, result_status,
                   raised, persist_aborted>>
    /\ UNCHANGED outsideRun

\* run_unified_optimization, except Exception: monitor 'F' when allocation_id
\* is set, scheduler 'failed' when schedule_id is set, then re-raise.
UnifiedExcept ==
    /\ run_kind = "unified"
    /\ pc = "except"
    /\ IF allocation_id \/ schedule_id # "none"
       THEN ExecuteAndCommit([working EXCEPT
                !.allocation_monitor = IF allocation_id THEN "F" ELSE @,
                !.scheduler = IF schedule_id # "none" THEN "failed" ELSE @])
       ELSE UNCHANGED <<committed, working>>
    /\ caller_sees' = raised
    /\ pc' = "done"
    /\ UNCHANGED <<runInputs, allocation_id, schedule_id, total_score, result_status,
                   raised, persist_aborted>>
    /\ UNCHANGED outsideRun

\* run_integrated_workflow after a step that returned: after allocation it
\* logs allocation_result.score, an attribute AllocationResult does not have,
\* and the AttributeError lands in its own handler; after scheduling it
\* returns the success dictionary.
WorkflowContinue ==
    /\ pc = "workflow"
    /\ raised = "none"
    /\ caller_sees' = IF run_kind = "allocation" THEN "failure_dict" ELSE "success_dict"
    /\ pc' = "done"
    /\ UNCHANGED <<runInputs, allocation_id, schedule_id, total_score, result_status,
                   committed, working, raised, persist_aborted>>
    /\ UNCHANGED outsideRun

\* run_integrated_workflow, except Exception: returns {'success': False, ...}
WorkflowExcept ==
    /\ pc = "workflow"
    /\ raised # "none"
    /\ caller_sees' = "failure_dict"
    /\ pc' = "done"
    /\ UNCHANGED <<runInputs, allocation_id, schedule_id, total_score, result_status,
                   committed, working, raised, persist_aborted>>
    /\ UNCHANGED outsideRun

NextRun ==
    \/ InitializeAllocation
    \/ LoadOrCreateSchedulerConfig
    \/ InitializeOptimization
    \/ LoadAndOptimize
    \/ AcceptanceGate
    \/ DeleteSiteAllocations
    \/ InsertRouteAllocated
    \/ InsertRouteAllocatedHistory
    \/ UpdateAllocationMonitor
    \/ PersistScheduleDelete
    \/ PersistScheduleInsert
    \/ PersistScheduleCommit
    \/ UpdateSchedulerStatus
    \/ Return
    \/ GetCursorDatabaseError
    \/ StepRaisesException
    \/ Interrupt
    \/ AllocationExcept
    \/ SchedulerExcept
    \/ UnifiedExcept
    \/ WorkflowContinue
    \/ WorkflowExcept

SpecRun == InitRun /\ [][NextRun]_vars

----------------------------------------------------------------------------
(* C4: in each persist step the deletion of the prior rows of the key and   *)
(* the insertion of the new rows execute in one transaction; no external    *)
(* reader sees the old rows deleted and the new rows absent or partial.     *)

\* C4: while no step has failed, the committed rows of the site are either
\* the rows before the run or the complete new rows, and likewise the
\* committed rows of the schedule.
C4_AtomicReplace ==
    raised = "none" =>
        /\ committed.route_allocated \in {rows_before.route_allocated, NewAllocationRows}
        /\ committed.charge_schedule \in {rows_before.charge_schedule, NewScheduleRows}

----------------------------------------------------------------------------
(* C6: an allocation whose total_score is below min_score ends with status  *)
(* F, no allocation row of the site deleted or inserted, and the monitor    *)
(* record updated, in the standalone and in the unified run.                *)

\* C6: when a run that produced an allocation result below MinScore has
\* returned, the result's status is F, the committed rows of the site are
\* those before the run, and the monitor record holds the result's status F.
C6_RejectedAllocation ==
    (pc = "done" /\ raised = "none" /\ has_allocation /\ total_score < MinScore) =>
        /\ result_status = "F"
        /\ committed.route_allocated = rows_before.route_allocated
        /\ committed.allocation_monitor = "F"

----------------------------------------------------------------------------
(* C7: every run creates its monitor record with the initial status at run  *)
(* start, and when the run ends each record it created holds a final        *)
(* status (A or F; completed or failed), never the initial one.             *)

\* C7: a record the run created holds the initial status while the run is
\* between its first step and its end, and once the run has ended the
\* allocation monitor it created holds A or F and the scheduler record it
\* created holds completed or failed.
C7_MonitorLifecycle ==
    /\ pc = "load" =>
          /\ allocation_id => committed.allocation_monitor = "N"
          /\ schedule_id = "created" => committed.scheduler = "running"
    /\ pc = "done" =>
          /\ allocation_id => committed.allocation_monitor \in {"A", "F"}
          /\ schedule_id = "created" => committed.scheduler \in {"completed", "failed"}

----------------------------------------------------------------------------
(* C8: if a step of a run raises after the monitor record was created, the  *)
(* monitor record is set to the failure status and the same exception       *)
(* propagates unchanged to the caller of the run.                           *)

\* C8: when a run in which a step raised has ended, each monitor record the
\* run created holds the failure status and the caller received the
\* exception that was raised.
C8_FailureMarkedAndRethrown ==
    (pc = "done" /\ raised # "none" /\ (allocation_id \/ schedule_id = "created")) =>
        /\ allocation_id => committed.allocation_monitor = "F"
        /\ schedule_id = "created" => committed.scheduler = "failed"
        /\ caller_sees = raised

----------------------------------------------------------------------------
(* C9: a persist step aborted part-way (store error, other exception or     *)
(* interrupt) leaves no partial writes, also after later statements of the  *)
(* run have committed.                                                      *)

\* C9: from the moment a persist step is aborted part-way, the committed rows
\* it was replacing are the rows from before the run.
C9_NoPartialWrites ==
    /\ persist_aborted = "allocation" =>
          committed.route_allocated = rows_before.route_allocated
    /\ persist_aborted = "schedule" =>
          committed.charge_schedule = rows_before.charge_schedule

----------------------------------------------------------------------------
(* C11: within one run that produces both an allocation and a schedule, the *)
(* allocation rows are committed before any schedule row is written.        *)

\* A row of the new schedule has been written on the connection
ScheduleRowWritten == working.charge_schedule \cap NewScheduleRows # {}

\* C11: in a run with both an allocation and a schedule, whenever a row of
\* the new schedule has been written, no allocation write is still to come:
\* an accepted allocation's rows are already committed in route_allocated and
\* in its history, and a rejected one's are never written.
C11_AllocationBeforeSchedule ==
    (has_allocation /\ has_schedule /\ ScheduleRowWritten) =>
        IF is_acceptable
        THEN /\ committed.route_allocated = NewAllocationRows
             /\ NewAllocationRows \subseteq committed.route_allocated_history
        ELSE /\ committed.route_allocated = rows_before.route_allocated
             /\ working.route_allocated = rows_before.route_allocated

\* C11 witness: an integrated run has ended with the accepted allocation's
\* rows and the whole new schedule committed.
C11_Witness ==
    /\ pc = "done"
    /\ run_kind = "unified"
    /\ opt_mode = "integrated"
    /\ is_acceptable
    /\ committed.route_allocated = NewAllocationRows
    /\ committed.charge_schedule = NewScheduleRows

----------------------------------------------------------------------------
(* C24: if a run is stopped by a user-level interrupt after its monitor     *)
(* record was created, the monitor record is marked failed; it does not     *)
(* remain in the initial N / running status.                                *)

\* C24: once a run stopped by KeyboardInterrupt has ended, the allocation
\* monitor it created holds status 'F' and the scheduler record it created
\* holds status 'failed'.
C24_InterruptMarksFailed ==
    (raised = "KeyboardInterrupt" /\ pc = "done") =>
        /\ allocation_id => committed.allocation_monitor = "F"
        /\ schedule_id = "created" => committed.scheduler = "failed"

----------------------------------------------------------------------------
(* C27: in the integrated allocation-then-scheduling workflow with neither  *)
(* step skipped, whenever the allocation step returns without raising, the  *)
(* scheduling step is then executed and the workflow reports success        *)
(* together with both the allocation result and the schedule result.        *)

\* C27: when a workflow whose allocation step returned without raising has
\* ended, a schedule was produced and completed and the caller received the
\* success dictionary.
C27_WorkflowRunsScheduling ==
    (via_workflow /\ run_kind = "allocation" /\ raised = "none" /\ pc = "done") =>
        /\ committed.scheduler = "completed"
        /\ caller_sees = "success_dict"

----------------------------------------------------------------------------
(* Specification SpecSlots: _build_time_slots(planning_start, planning_end) *)
(* of either controller. Times are minutes. planning_start is current_time  *)
(* floored to 30 minutes; planning_end is the earliest of the target end    *)
(* and the latest forecast and price timestamps of the store, which need    *)
(* not lie on the 30-minute grid.                                           *)

MinimumWindowMinutes == 240

\* How far past the minimum window planning_end may lie, in quarter hours
MaxExtraQuarters == 4

PlanningStarts == {0, 30, 60}

PlanningLengths == { MinimumWindowMinutes + 15 * q : q \in 0..MaxExtraQuarters }

InitSlots ==
    /\ LoadIdle
    /\ WindowIdle
    /\ RepeatIdle
    /\ AllocIdle
    /\ SchedIdle
    /\ RunIdle
    /\ ConnIdle
    /\ slots_start \in PlanningStarts
    /\ \E length \in PlanningLengths : slots_end = slots_start + length
    /\ slot_cursor = slots_start
    /\ built_slots = <<>>
    /\ slots_pc = "loop"

\* while current < end: slots.append(current); current += timedelta(minutes=30)
AppendSlot ==
    /\ slots_pc = "loop"
    /\ slot_cursor < slots_end
    /\ built_slots' = Append(built_slots, slot_cursor)
    /\ slot_cursor' = slot_cursor + SlotMinutes
    /\ UNCHANGED <<slots_start, slots_end, slots_pc>>
    /\ UNCHANGED outsideSlots

\* the loop condition fails: return slots
ReturnSlots ==
    /\ slots_pc = "loop"
    /\ ~ (slot_cursor < slots_end)
    /\ slots_pc' = "returned"
    /\ UNCHANGED <<slots_start, slots_end, slot_cursor, built_slots>>
    /\ UNCHANGED outsideSlots

NextSlots == AppendSlot \/ ReturnSlots

SpecSlots == InitSlots /\ [][NextSlots]_vars

----------------------------------------------------------------------------
(* C22: the time slots of a run are exactly the set {T + 30*i minutes :     *)
(* 0 <= i < N} with N = floor((end - T) / 30 minutes): every slot lies      *)
(* wholly inside [T, end) and no such slot is missing.                      *)

\* C22: the returned list holds exactly the slot starts T + 30*i with
\* 0 <= i < floor((end - T) / 30), so each slot ends no later than end.
C22_ExactGrid ==
    slots_pc = "returned" =>
        LET N == (slots_end - slots_start) \div SlotMinutes
        IN  /\ Range(built_slots) = { slots_start + SlotMinutes * i : i \in 0..(N - 1) }
            /\ \A n \in DOMAIN built_slots : built_slots[n] + SlotMinutes <= slots_end

----------------------------------------------------------------------------
(* Specification SpecLoad: the inputs a scheduling run loads (vehicles,     *)
(* charge states, the routes its checkpoints come from) and what the solve  *)
(* receives. Both SOC values of the inputs lie below the target SOC, so     *)
(* every vehicle handed to the solver is given charge slots.                *)

LoadVehicleIds == {1, 2}

LoadRouteIds == {1, 2}

\* The sentinel t_vsm.estimated_soc of a vehicle that must not be used
SocSentinel == -111

EstimatedSocInputs == [LoadVehicleIds -> {SocSentinel, 40}]

\* Rows naming at most one vehicle per route
RouteVehicleRows ==
    { rows \in SUBSET (LoadRouteIds \X LoadVehicleIds) :
        \A p, q \in rows : p[1] = q[1] => p = q }

LoadModes(entry) ==
    IF entry = "scheduler" THEN {"ROUTE_PLAN_ONLY", "ALLOCATED_ROUTES"}
    ELSE {"scheduling_only", "integrated"}

InitLoad ==
    /\ SlotsIdle
    /\ WindowIdle
    /\ RepeatIdle
    /\ AllocIdle
    /\ SchedIdle
    /\ RunIdle
    /\ ConnIdle
    /\ load_entry \in {"scheduler", "unified"}
    /\ load_mode \in LoadModes(load_entry)
    /\ vsm_estimated_soc \in EstimatedSocInputs
    /\ route_plan_rows \in RouteVehicleRows
    /\ route_allocated_rows \in RouteVehicleRows
    /\ loaded_vehicles = {}
    /\ loaded_vehicle_routes = <<>>
    /\ solved_allocation = {}
    /\ charged_vehicles = {}
    /\ load_pc = "start"

\* run_scheduling: _load_vehicles and _load_vehicle_states; every active
\* vehicle of the site is kept, whatever its estimated_soc.
SchedulerLoadVehicles ==
    /\ load_entry = "scheduler"
    /\ load_pc = "start"
    /\ loaded_vehicles' = LoadVehicleIds
    /\ load_pc' = "vehicles"
    /\ UNCHANGED <<load_entry, load_mode, vsm_estimated_soc, route_plan_rows,
                   route_allocated_rows, loaded_vehicle_routes, solved_allocation,
                   charged_vehicles>>
    /\ UNCHANGED outsideLoad

\* run_unified_optimization, phase 4: the vehicles whose current_soc_percent
\* is -111 are filtered out.
UnifiedLoadVehicles ==
    /\ load_entry = "unified"
    /\ load_pc = "start"
    /\ loaded_vehicles' = { v \in LoadVehicleIds : vsm_estimated_soc[v] # SocSentinel }
    /\ load_pc' = "vehicles"
    /\ UNCHANGED <<load_entry, load_mode, vsm_estimated_soc, route_plan_rows,
                   route_allocated_rows, loaded_vehicle_routes, solved_allocation,
                   charged_vehicles>>
    /\ UNCHANGED outsideLoad

\* GET_ROUTES_FOR_SCHEDULING_ROUTE_PLAN: WHERE t_route_plan.vehicle_id = %s
RoutesFromRoutePlan(v) == { row[1] : row \in { q \in route_plan_rows : q[2] = v } }

\* GET_ROUTES_FOR_SCHEDULING_ALLOCATED: t_route_plan JOIN t_route_allocated
\* WHERE vehicle_id_allocated = %s
RoutesFromAllocated(v) == { row[1] : row \in { q \in route_allocated_rows : q[2] = v } }

\* SchedulerController._load_vehicle_routes: the query chosen by
\* config.route_source_mode
SchedulerQuery(v) ==
    IF load_mode = "ALLOCATED_ROUTES" THEN RoutesFromRoutePlan(v) ELSE RoutesFromAllocated(v)

SchedulerLoadVehicleRoutes ==
    /\ load_entry = "scheduler"
    /\ load_pc = "vehicles"
    /\ loaded_vehicle_routes' = [v \in loaded_vehicles |-> SchedulerQuery(v)]
    /\ load_pc' = "routes"
    /\ UNCHANGED <<load_entry, load_mode, vsm_estimated_soc, route_plan_rows,
                   route_allocated_rows, loaded_vehicles, solved_allocation,
                   charged_vehicles>>
    /\ UNCHANGED outsideLoad

\* UnifiedController._load_vehicle_routes: always the allocated query, run
\* while the inputs are prepared, before the solve.
UnifiedLoadVehicleRoutes ==
    /\ load_entry = "unified"
    /\ load_pc = "vehicles"
    /\ loaded_vehicle_routes' = [v \in loaded_vehicles |-> RoutesFromAllocated(v)]
    /\ load_pc' = "routes"
    /\ UNCHANGED <<load_entry, load_mode, vsm_estimated_soc, route_plan_rows,
                   route_allocated_rows, loaded_vehicles, solved_allocation,
                   charged_vehicles>>
    /\ UNCHANGED outsideLoad

\* The solve: in integrated mode it selects sequences for the loaded vehicles
\* (a route goes to at most one of them); the schedule part covers every
\* vehicle it was handed, with the checkpoints of energy_requirements.
SolveLoaded ==
    /\ load_pc = "routes"
    /\ IF load_mode = "integrated"
       THEN solved_allocation' \in
                { rows \in RouteVehicleRows : \A p \in rows : p[2] \in loaded_vehicles }
       ELSE solved_allocation' = {}
    /\ charged_vehicles' = loaded_vehicles
    /\ load_pc' = "solved"
    /\ UNCHANGED <<load_entry, load_mode, vsm_estimated_soc, route_plan_rows,
                   route_allocated_rows, loaded_vehicles, loaded_vehicle_routes>>
    /\ UNCHANGED outsideLoad

NextLoad ==
    \/ SchedulerLoadVehicles
    \/ UnifiedLoadVehicles
    \/ SchedulerLoadVehicleRoutes
    \/ UnifiedLoadVehicleRoutes
    \/ SolveLoaded

SpecLoad == InitLoad /\ [][NextLoad]_vars

----------------------------------------------------------------------------
(* C23: a vehicle whose SOC is the sentinel -111 is excluded from           *)
(* scheduling in every entry point (scheduler and unified): it is not part  *)
(* of the solver's vehicle set and receives no charge slots.                *)

\* C23: once the vehicles are loaded, no vehicle with estimated_soc -111 is
\* among the vehicles handed to the solver or among those given charge slots.
C23_SentinelExcluded ==
    load_pc \in {"vehicles", "routes", "solved"} =>
        \A v \in LoadVehicleIds :
            vsm_estimated_soc[v] = SocSentinel =>
                /\ v \notin loaded_vehicles
                /\ v \notin charged_vehicles

----------------------------------------------------------------------------
(* C28: the scheduler builds a vehicle's checkpoints from the route source  *)
(* its mode names: in ALLOCATED_ROUTES mode from the vehicle's routes       *)
(* joined with allocation rows, and in ROUTE_PLAN_ONLY mode from the        *)
(* vehicle's planned routes in the route plan.                              *)

\* C28: in a scheduler run whose routes are loaded, the routes of every
\* vehicle are those of the allocation join in ALLOCATED_ROUTES mode and
\* those of the route plan in ROUTE_PLAN_ONLY mode.
C28_RouteSourceByMode ==
    (load_entry = "scheduler" /\ load_pc \in {"routes", "solved"}) =>
        \A v \in loaded_vehicles :
            loaded_vehicle_routes[v] =
                (IF load_mode = "ALLOCATED_ROUTES" THEN RoutesFromAllocated(v)
                 ELSE RoutesFromRoutePlan(v))

----------------------------------------------------------------------------
(* C26: in unified integrated mode, the route-energy checkpoint of route    *)
(* r_k constrains the schedule of vehicle v exactly when the same solve     *)
(* selects a sequence of v that contains r_k.                               *)

\* C26: after an integrated solve, a route is among the routes whose
\* checkpoints constrain a vehicle exactly when the solve allocated that
\* route to that vehicle.
C26_CheckpointsFollowSelection ==
    (load_entry = "unified" /\ load_mode = "integrated" /\ load_pc = "solved") =>
        \A v \in loaded_vehicles : \A r \in LoadRouteIds :
            r \in loaded_vehicle_routes[v] <=> <<r, v>> \in solved_allocation

----------------------------------------------------------------------------
(* Two runs in a row                                                        *)
(*                                                                          *)
(* Every caller (command lines, HTTP facade, workflow) builds a new         *)
(* controller for each run, so a second run on the same inputs starts from  *)
(* the same constructor arguments and the tables the first run left.        *)
(* A row of t_route_allocated is <<allocation_id, route_id, vehicle_id>>,   *)
(* a row of t_charge_schedule is <<schedule_id, slot, charge_power>>.       *)

RepeatEntries ==
    {"allocation", "scheduler", "unified_allocation_only", "unified_scheduling_only",
     "unified_integrated"}

repeat_has_allocation ==
    repeat_entry \in {"allocation", "unified_allocation_only", "unified_integrated"}

repeat_has_schedule ==
    repeat_entry \in {"scheduler", "unified_scheduling_only", "unified_integrated"}

\* What a caller passes as schedule_id: nothing, or the id of the t_scheduler
\* record that exists before the first run
ScheduleIdArgs == {Absent, <<1>>}

RepeatAllocations == SUBSET {<<1, 1>>, <<2, 2>>}

RepeatPowers == [1..NRows -> {0, 7}]

PriorRouteAllocated == {<<0, 1, 2>>}

PriorChargeSchedule == {<<1, 1, 3>>}

InitRepeat ==
    /\ SlotsIdle
    /\ LoadIdle
    /\ WindowIdle
    /\ AllocIdle
    /\ SchedIdle
    /\ RunIdle
    /\ ConnIdle
    /\ repeat_entry \in RepeatEntries
    /\ schedule_id_arg \in (IF repeat_has_schedule THEN ScheduleIdArgs ELSE {Absent})
    /\ \E acceptable \in (IF repeat_has_allocation THEN BOOLEAN ELSE {TRUE}) :
       \E allocations \in (IF repeat_has_allocation THEN RepeatAllocations ELSE {{}}) :
       \E powers \in (IF repeat_has_schedule THEN RepeatPowers ELSE {<<>>}) :
          repeat_result = [is_acceptable |-> acceptable, allocations |-> allocations,
                           charge_power |-> powers]
    /\ \E alloc_rows \in {{}, PriorRouteAllocated} :
       \E sched_rows \in (IF schedule_id_arg = Absent THEN {{}}
                          ELSE {{}, PriorChargeSchedule}) :
          tables = [route_allocated |-> alloc_rows, charge_schedule |-> sched_rows]
    /\ serials = [allocation_id |-> 0, schedule_id |-> 1]
    /\ controller = [allocation_id |-> Absent, schedule_id |-> Absent]
    /\ runs_completed = 0
    /\ after_first_run = <<>>
    /\ repeat_pc = "start"

\* The controller is constructed and initialises the run: CREATE_ALLOCATION_MONITOR
\* returns a new allocation_id when the run allocates; CREATE_SCHEDULER returns
\* a new schedule_id when the run schedules and no schedule_id was passed.
ConstructAndInitialize ==
    /\ repeat_pc = "start"
    /\ runs_completed < 2
    /\ LET new_allocation == repeat_has_allocation
           new_schedule == repeat_has_schedule /\ schedule_id_arg = Absent
       IN  /\ serials' = [allocation_id |-> serials.allocation_id
                                              + (IF new_allocation THEN 1 ELSE 0),
                          schedule_id |-> serials.schedule_id
                                              + (IF new_schedule THEN 1 ELSE 0)]
           /\ controller' =
                [allocation_id |-> IF new_allocation
                                   THEN <<serials.allocation_id + 1>> ELSE Absent,
                 schedule_id |-> IF new_schedule
                                 THEN <<serials.schedule_id + 1>> ELSE schedule_id_arg]
    /\ repeat_pc' = IF repeat_has_allocation THEN "persist_allocation"
                    ELSE "persist_schedule"
    /\ UNCHANGED <<repeat_entry, schedule_id_arg, repeat_result, tables, runs_completed,
                   after_first_run>>
    /\ UNCHANGED outsideRepeat

\* The acceptance check and _persist_allocation: DELETE_SITE_ALLOCATIONS, then
\* INSERT_ROUTE_ALLOCATED when the result has allocations.
RepeatPersistAllocation ==
    /\ repeat_pc = "persist_allocation"
    /\ IF repeat_result.is_acceptable
       THEN tables' = [tables EXCEPT !.route_allocated =
                          { <<controller.allocation_id[1], a[1], a[2]>> :
                                a \in repeat_result.allocations }]
       ELSE UNCHANGED tables
    /\ repeat_pc' = IF repeat_has_schedule THEN "persist_schedule" ELSE "return"
    /\ UNCHANGED <<repeat_entry, schedule_id_arg, repeat_result, serials, controller,
                   runs_completed, after_first_run>>
    /\ UNCHANGED outsideRepeat

\* _persist_schedule: DELETE_CHARGE_SCHEDULE_BY_SCHEDULE_ID for self.schedule_id,
\* then one INSERT_CHARGE_SCHEDULE per slot.
RepeatPersistSchedule ==
    /\ repeat_pc = "persist_schedule"
    /\ LET id == controller.schedule_id[1]
           kept == { row \in tables.charge_schedule : row[1] # id }
           inserted == { <<id, slot, repeat_result.charge_power[slot]>> :
                             slot \in DOMAIN repeat_result.charge_power }
       IN  tables' = [tables EXCEPT !.charge_schedule = kept \cup inserted]
    /\ repeat_pc' = "return"
    /\ UNCHANGED <<repeat_entry, schedule_id_arg, repeat_result, serials, controller,
                   runs_completed, after_first_run>>
    /\ UNCHANGED outsideRepeat

\* The run returns; the caller may run again on the same inputs.
RepeatReturn ==
    /\ repeat_pc = "return"
    /\ runs_completed' = runs_completed + 1
    /\ after_first_run' = IF runs_completed = 0 THEN tables ELSE after_first_run
    /\ controller' = [allocation_id |-> Absent, schedule_id |-> Absent]
    /\ repeat_pc' = "start"
    /\ UNCHANGED <<repeat_entry, schedule_id_arg, repeat_result, tables, serials>>
    /\ UNCHANGED outsideRepeat

NextRepeat ==
    \/ ConstructAndInitialize
    \/ RepeatPersistAllocation
    \/ RepeatPersistSchedule
    \/ RepeatReturn

SpecRepeat == InitRepeat /\ [][NextRepeat]_vars

----------------------------------------------------------------------------
(* C20: running a run twice on the same inputs leaves the same set of rows  *)
(* in route_allocated and in charge_schedule (ignoring surrogate ids) as    *)
(* running it once.                                                         *)

\* The ids the rows of a table carry
IdsOf(rows) == { row[1] : row \in rows }

\* Two row sets are the same up to a one-to-one renaming of their ids
SameUpToIds(A, B) ==
    \E f \in [IdsOf(A) -> IdsOf(B)] :
        /\ \A i, j \in IdsOf(A) : f[i] = f[j] => i = j
        /\ { f[i] : i \in IdsOf(A) } = IdsOf(B)
        /\ { [row EXCEPT ![1] = f[row[1]]] : row \in A } = B

\* C20: once the second run has returned, each table holds the rows the first
\* run left, up to the ids the runs generated.
C20_SecondRunSameRows ==
    runs_completed = 2 =>
        /\ SameUpToIds(tables.route_allocated, after_first_run.route_allocated)
        /\ SameUpToIds(tables.charge_schedule, after_first_run.charge_schedule)

----------------------------------------------------------------------------
(* Concurrent requests of the HTTP facade                                   *)
(*                                                                          *)
(* POST /optimize/unified is a synchronous endpoint, so the server runs     *)
(* each request on its own worker thread. Every UnifiedController uses the  *)
(* module-level DatabaseConnection db: its constructor calls db.connect(),  *)
(* its database operations go through db.get_cursor(), and the endpoint's   *)
(* finally clause calls controller.close(), which is db.close().            *)

NRequests == 2
NOps == 2

Requests == 1..NRequests

\* A connection is named after the request whose constructor opened it.
InitConc ==
    /\ WindowIdle
    /\ RepeatIdle
    /\ SlotsIdle
    /\ LoadIdle
    /\ AllocIdle
    /\ SchedIdle
    /\ RunIdle
    /\ db_connection = 0
    /\ conn_open = [c \in Requests |-> FALSE]
    /\ conn_pending = [c \in Requests |-> {}]
    /\ req_pc = [r \in Requests |-> "new"]
    /\ req_conn = [r \in Requests |-> 0]
    /\ req_ops = [r \in Requests |-> 0]
    /\ interference = [r \in Requests |-> {}]

\* UnifiedController.__init__ -> db.connect(): a new connection replaces
\* db._connection.
ControllerInit(r) ==
    /\ req_pc[r] = "new"
    /\ conn_open' = [conn_open EXCEPT ![r] = TRUE]
    /\ db_connection' = r
    /\ req_pc' = [req_pc EXCEPT ![r] = "ready"]
    /\ UNCHANGED <<conn_pending, req_conn, req_ops, interference>>
    /\ UNCHANGED outsideConc

\* The run fails on a closed connection: psycopg2 raises InterfaceError, the
\* run's handler re-raises and the endpoint goes to its finally clause.
OperationFails(r) ==
    /\ interference' = [interference EXCEPT ![r] = @ \cup {"operation_failed"}]
    /\ req_pc' = [req_pc EXCEPT ![r] = "closing"]

\* get_cursor, entry: conn = self._connection or self.connect(); conn.cursor()
GetCursor(r) ==
    /\ req_pc[r] = "ready"
    /\ req_ops[r] < NOps
    /\ IF conn_open[db_connection]
       THEN /\ req_conn' = [req_conn EXCEPT ![r] = db_connection]
            /\ req_pc' = [req_pc EXCEPT ![r] = "cursor"]
            /\ UNCHANGED interference
       ELSE /\ OperationFails(r)
            /\ UNCHANGED req_conn
    /\ UNCHANGED <<db_connection, conn_open, conn_pending, req_ops>>
    /\ UNCHANGED outsideConc

\* Inside the block: cursor.execute of a writing statement
CursorExecute(r) ==
    /\ req_pc[r] = "cursor"
    /\ IF conn_open[req_conn[r]]
       THEN /\ conn_pending' = [conn_pending EXCEPT ![req_conn[r]] = @ \cup {r}]
            /\ req_pc' = [req_pc EXCEPT ![r] = "executed"]
            /\ UNCHANGED interference
       ELSE /\ OperationFails(r)
            /\ UNCHANGED conn_pending
    /\ UNCHANGED <<db_connection, conn_open, req_conn, req_ops>>
    /\ UNCHANGED outsideConc

\* get_cursor, normal exit: conn.commit() commits everything pending on conn
CursorCommit(r) ==
    /\ req_pc[r] = "executed"
    /\ IF conn_open[req_conn[r]]
       THEN /\ conn_pending' = [conn_pending EXCEPT ![req_conn[r]] = {}]
            /\ interference' =
                  [q \in Requests |->
                      IF q # r /\ q \in conn_pending[req_conn[r]]
                      THEN interference[q] \cup {"committed_by_other"}
                      ELSE interference[q]]
            /\ req_ops' = [req_ops EXCEPT ![r] = @ + 1]
            /\ req_pc' = [req_pc EXCEPT ![r] = "ready"]
       ELSE /\ OperationFails(r)
            /\ UNCHANGED <<conn_pending, req_ops>>
    /\ UNCHANGED <<db_connection, conn_open, req_conn>>
    /\ UNCHANGED outsideConc

\* The endpoint's finally clause: controller.close() -> db.close() closes
\* whatever db._connection is now; the server discards what was pending on it.
ControllerClose(r) ==
    /\ \/ req_pc[r] = "closing"
       \/ req_pc[r] = "ready" /\ req_ops[r] = NOps
    /\ conn_open' = [conn_open EXCEPT ![db_connection] = FALSE]
    /\ conn_pending' = [conn_pending EXCEPT ![db_connection] = {}]
    /\ interference' =
          [q \in Requests |->
              IF q # r /\ conn_open[db_connection] /\ q \in conn_pending[db_connection]
              THEN interference[q] \cup {"rolled_back_by_other"}
              ELSE interference[q]]
    /\ req_pc' = [req_pc EXCEPT ![r] = "done"]
    /\ UNCHANGED <<db_connection, req_conn, req_ops>>
    /\ UNCHANGED outsideConc

NextConc ==
    \E r \in Requests :
        \/ ControllerInit(r)
        \/ GetCursor(r)
        \/ CursorExecute(r)
        \/ CursorCommit(r)
        \/ ControllerClose(r)

SpecConc == InitConc /\ [][NextConc]_vars

----------------------------------------------------------------------------
(* C10: when the HTTP facade serves two runs concurrently, one run          *)
(* finishing or failing (including closing its controller) never makes a    *)
(* database operation of the other run fail, and never commits or rolls     *)
(* back the other run's uncommitted writes.                                 *)

\* C10: no request ever has a database operation fail on a connection that
\* another request closed, nor its uncommitted writes committed or rolled
\* back by another request.
C10_IndependentRuns == \A r \in Requests : interference[r] = {}

====
